---- MODULE Spec2Model ----
(***************************************************************************)
(* Model of WebRobot (node-ntwebrobot): the form fill engine built on the  *)
(* step pipeline (Work.works) and the sequential queue (Queue) of          *)
(* @ntlab/work.  The newest copy of the class (src/unnamed/part_000, lines *)
(* 755-1819) is the one modelled; src/index.js is the previous revision.   *)
(***************************************************************************)
EXTENDS Integers, Sequences, FiniteSets, TLC

\* ------------------------------------------------------------------ bounds
MaxFields == 2

\* ------------------------------------------------------- pipeline engine
\* A skipped step still occupies its index of the result register: the
\* guards of fillFormValue address steps 10, 11 and 12 by absolute position.
Null == "null"

Undefined == "undefined"

getRes(result, idx) ==
    IF idx + 1 \in DOMAIN result THEN result[idx + 1] ELSE Undefined

SkipStepNoEntry(result) == result

SkipStep(result) == Append(result, Null)

SetResult(result, res) == Append(result, res)

\* The JavaScript booleans, kept apart from the strings 'true' and 'false'.
JsTrue == "#true"

JsFalse == "#false"

JsBool(b) == IF b THEN JsTrue ELSE JsFalse

\* JavaScript truthiness of the values the registers hold.
Truthy(v) == v \notin {Null, Undefined, "", JsFalse}

\* ------------------------------------------------------------ fillInForm
VARIABLES
    values,       \* the field specifications the caller supplies
    valuesArray,  \* the caller's array: the specification at each position
    submit,       \* "none" | "function" | "locator"
    options,      \* [wait, prefillCallback, postfillCallback]
    fstate,       \* position of fillInForm's own pipeline
    wres,         \* result register of fillInForm's own pipeline
    queues,       \* q.queues: the items the queue has not started yet
    fpc,          \* position of the worker of each field
    nextCalled,   \* whether next() was invoked for the field
    dataParent,   \* data.parent of each field
    dataEl,       \* data.el of each field: "unset" | "live" | "stale"
    fieldErr,     \* the error the worker of each field carries
    pres,         \* result register of the pipeline run on 'done'
    prres,        \* its last written result
    formPromise,  \* "pending" | "resolved" | "rejected"
    formResult,   \* what the promise resolved with
    formError,    \* what the promise rejected with
    log           \* history of driver interactions and hooks

formVars == <<values, valuesArray, submit, options, fstate, wres, queues, fpc,
              nextCalled,
              dataParent, dataEl, fieldErr, pres, prres, formPromise,
              formResult, formError, log>>

FieldSpecs ==
    { [wait |-> FALSE, parent |-> "element",   relative |-> FALSE, done |-> FALSE],
      [wait |-> FALSE, parent |-> "undefined", relative |-> TRUE,  done |-> TRUE],
      [wait |-> TRUE,  parent |-> "By",        relative |-> FALSE, done |-> FALSE] }

SubmitWaits == {0, 1000}

NoErr == [kind |-> "none", field |-> 0, wrapped |-> FALSE]

Fields == 1..Len(values)

Ev(f, e) == [f |-> f, ev |-> e]

FormInit ==
    /\ values \in UNION { [1..n -> FieldSpecs] : n \in 0..MaxFields }
    /\ valuesArray = [i \in 1..Len(values) |-> i]
    /\ submit \in {"none", "function", "locator"}
    /\ options \in [wait : SubmitWaits, prefillCallback : BOOLEAN,
                    postfillCallback : BOOLEAN]
    /\ fstate = "waitFor"
    /\ wres = <<>>
    /\ queues = <<>>
    /\ fpc = [k \in Fields |-> "idle"]
    /\ nextCalled = [k \in Fields |-> FALSE]
    /\ dataParent = [k \in Fields |-> values[k].parent]
    /\ dataEl = [k \in Fields |-> "unset"]
    /\ fieldErr = [k \in Fields |-> NoErr]
    /\ pres = <<>>
    /\ prres = Null
    /\ formPromise = "pending"
    /\ formResult = Null
    /\ formError = NoErr
    /\ log = <<>>

\* reject(err) of the promise fillInForm returns: the first settlement wins.
RejectForm(err) ==
    /\ formPromise' = IF formPromise = "pending" THEN "rejected" ELSE formPromise
    /\ formError' = IF formPromise = "pending" THEN err ELSE formError
    /\ formResult' = formResult

ResolveForm(res) ==
    /\ formPromise' = IF formPromise = "pending" THEN "resolved" ELSE formPromise
    /\ formResult' = IF formPromise = "pending" THEN res ELSE formResult
    /\ formError' = formError

DriverErr(k) == [kind |-> "Error", field |-> k, wrapped |-> FALSE]

\* new Error(message, {cause: err}), or message + '\n' + err for a string.
WrapErr(err) == [err EXCEPT !.wrapped = TRUE]

\* a queue that shifts the items off the array it was given
QueueSharesList == FALSE

\* new Queue([...values], ...): the queue shifts the items off its own array.
QueueCopiesList == TRUE

\* q.next(): hand the next item to the worker, or emit 'done' (handled once).
\* The worker first points a relative target at the form element and then
\* calls data.handler().
QNext(qs, fpc1, log1, fstate1) ==
    IF qs # <<>>
    THEN LET k == Head(qs) IN
         /\ queues' = Tail(qs)
         /\ valuesArray' = IF QueueCopiesList THEN valuesArray ELSE Tail(qs)
         /\ fpc' = [fpc1 EXCEPT ![k] = "w0"]
         /\ dataParent' = [dataParent EXCEPT ![k] =
                IF @ = "undefined" /\ values[k].relative
                THEN getRes(wres, 0) ELSE @]
         /\ log' = Append(log1, Ev(k, "start"))
         /\ fstate' = fstate1
    ELSE /\ queues' = qs
         /\ valuesArray' = valuesArray
         /\ fpc' = fpc1
         /\ dataParent' = dataParent
         /\ log' = log1
         /\ fstate' = IF fstate1 = "queue" THEN "post" ELSE fstate1

\* data.handler = () => {...}: the worker stores its handler in the field
\* specification before it calls it.
dataHandler(k) == fpc[k] # "idle"

\* [w => this.waitFor(form)]
WaitForForm ==
    /\ fstate = "waitFor"
    /\ \/ /\ wres' = SetResult(wres, "element")
          /\ fstate' = "visible"
          /\ UNCHANGED <<formPromise, formResult, formError>>
       \/ /\ fstate' = "failed"
          /\ RejectForm(DriverErr(0))
          /\ UNCHANGED wres
    /\ UNCHANGED <<values, valuesArray, submit, options, queues, fpc, nextCalled,
                   dataParent, dataEl, fieldErr, pres, prres, log>>

\* [w => this.driver.wait(until.elementIsVisible(w.getRes(0)))]
WaitVisible ==
    /\ fstate = "visible"
    /\ \/ /\ wres' = SetResult(wres, getRes(wres, 0))
          /\ fstate' = "prefill"
          /\ UNCHANGED <<formPromise, formResult, formError>>
       \/ /\ fstate' = "failed"
          /\ RejectForm(DriverErr(0))
          /\ UNCHANGED wres
    /\ UNCHANGED <<values, valuesArray, submit, options, queues, fpc, nextCalled,
                   dataParent, dataEl, fieldErr, pres, prres, log>>

\* [w => options.prefillCallback(w.getRes(0)), w => typeof ... === 'function']
Prefill ==
    /\ fstate = "prefill"
    /\ IF options.prefillCallback
       THEN /\ log' = Append(log, Ev(0, "prefill"))
            /\ \/ /\ wres' = SetResult(wres, "prefillResult")
                  /\ fstate' = "startQueue"
                  /\ UNCHANGED <<formPromise, formResult, formError>>
               \/ /\ fstate' = "failed"
                  /\ RejectForm(DriverErr(0))
                  /\ UNCHANGED wres
       ELSE /\ wres' = SkipStep(wres)
            /\ fstate' = "startQueue"
            /\ UNCHANGED <<formPromise, formResult, formError, log>>
    /\ UNCHANGED <<values, valuesArray, submit, options, queues, fpc, nextCalled,
                   dataParent, dataEl, fieldErr, pres, prres>>

\* const q = new Queue([...values], data => {...}): the queue works on a copy
\* of the list and starts with its first item.
StartQueue ==
    /\ fstate = "startQueue"
    /\ QNext(valuesArray, fpc, log, "queue")
    /\ UNCHANGED <<values, submit, options, wres, nextCalled, dataEl, fieldErr,
                   pres, prres, formPromise, formResult, formError>>

\* [x => this.sleep(this.wait), x => data.wait]
WorkerSleep(k) ==
    /\ fpc[k] = "w0"
    /\ fpc' = [fpc EXCEPT ![k] = "w1"]
    /\ log' = IF values[k].wait THEN Append(log, Ev(k, "sleep")) ELSE log
    /\ UNCHANGED <<values, valuesArray, submit, options, fstate, wres, queues, nextCalled,
                   dataParent, dataEl, fieldErr, pres, prres, formPromise,
                   formResult, formError>>

\* [x => this.findElement(data.parent)..., x => data.parent instanceof By]
WorkerFindParent(k) ==
    /\ fpc[k] = "w1"
    /\ IF dataParent[k] = "By"
       THEN /\ log' = Append(log, Ev(k, "findParent"))
            /\ \/ /\ dataParent' = [dataParent EXCEPT ![k] = "element"]
                  /\ fpc' = [fpc EXCEPT ![k] = "w2"]
                  /\ UNCHANGED fieldErr
               \/ /\ fieldErr' = [fieldErr EXCEPT ![k] = DriverErr(k)]
                  /\ fpc' = [fpc EXCEPT ![k] = "catch"]
                  /\ UNCHANGED dataParent
       ELSE /\ fpc' = [fpc EXCEPT ![k] = "w2"]
            /\ UNCHANGED <<log, dataParent, fieldErr>>
    /\ UNCHANGED <<values, valuesArray, submit, options, fstate, wres, queues, nextCalled,
                   dataEl, pres, prres, formPromise, formResult, formError>>

\* this.fillFormValue(data): it resolves, or rejects with a string (element
\* not found, multiple elements, required input) or an Error (driver, hook);
\* data.el is set once the first matched element reaches the custom fill
\* step, and that element may have gone stale since.  A hook that throws
\* synchronously is called after data.el = el, and its exception becomes the
\* rejection of fillFormValue (the try/catch of the custom fill step, the
\* catch chained on canfill's then, the pipeline of the element).
WorkerFill(k) ==
    /\ fpc[k] = "w2"
    /\ \E el \in {"unset", "live", "stale"} :
        /\ dataEl' = [dataEl EXCEPT ![k] = el]
        /\ \/ /\ fpc' = [fpc EXCEPT ![k] = "then"]
              /\ log' = Append(log, Ev(k, "fill"))
              /\ UNCHANGED fieldErr
           \/ \E kind \in {"string", "Error"} :
                /\ fieldErr' = [fieldErr EXCEPT ![k] =
                       [kind |-> kind, field |-> k, wrapped |-> FALSE]]
                /\ fpc' = [fpc EXCEPT ![k] = "snap"]
                /\ \/ log' = Append(log, Ev(k, "fill"))
                   \/ /\ kind = "Error" /\ el # "unset"
                      /\ log' = Append(Append(log, Ev(k, "fill")),
                                       Ev(k, "hookThrows"))
    /\ UNCHANGED <<values, valuesArray, submit, options, fstate, wres, queues, nextCalled,
                   dataParent, pres, prres, formPromise, formResult, formError>>

\* The pipeline run in fillFormValue's catch: data.el.getAttribute('outerHTML')
\* when data.el is set, data.target otherwise.  Reading an attribute of a stale
\* element rejects, and the run has a then() but no catch().
SnapshotSettles(el) == el # "stale"

WorkerSnapshot(k) ==
    /\ fpc[k] = "snap"
    /\ log' = IF dataEl[k] # "unset" THEN Append(log, Ev(k, "snapshot")) ELSE log
    /\ IF SnapshotSettles(dataEl[k])
       THEN /\ fieldErr' = [fieldErr EXCEPT ![k] = WrapErr(@)]
            /\ fpc' = [fpc EXCEPT ![k] = "catch"]
       ELSE /\ fpc' = [fpc EXCEPT ![k] = "lost"]
            /\ UNCHANGED fieldErr
    /\ UNCHANGED <<values, valuesArray, submit, options, fstate, wres, queues, nextCalled,
                   dataParent, dataEl, pres, prres, formPromise, formResult,
                   formError>>

\* .catch(err => reject(err)) of data.handler
WorkerCatch(k) ==
    /\ fpc[k] = "catch"
    /\ fpc' = [fpc EXCEPT ![k] = "rejected"]
    /\ RejectForm(fieldErr[k])
    /\ UNCHANGED <<values, valuesArray, submit, options, fstate, wres, queues, nextCalled,
                   dataParent, dataEl, fieldErr, pres, prres, log>>

\* The positions of data.handler at which next() is invoked: .then(() => next())
WorkerNextPhasesEager == {"w0", "then"}

WorkerNextPhasesFinally == {"then", "rejected"}

WorkerNextPhases == {"then"}

\* next(): data.done(data, () => q.next()) when done is a function, q.next()
\* otherwise.
WorkerNext(k) ==
    /\ fpc[k] \in WorkerNextPhases
    /\ ~nextCalled[k]
    /\ nextCalled' = [nextCalled EXCEPT ![k] = TRUE]
    /\ IF values[k].done
       THEN /\ fpc' = [fpc EXCEPT ![k] = IF @ = "then" THEN "done" ELSE @]
            /\ log' = Append(log, Ev(k, "done"))
            /\ UNCHANGED <<queues, valuesArray, dataParent, fstate>>
       ELSE QNext(queues,
                  [fpc EXCEPT ![k] = IF @ = "then" THEN "completed" ELSE @],
                  Append(log, Ev(k, "next")), fstate)
    /\ UNCHANGED <<values, submit, options, wres, dataEl, fieldErr, pres, prres,
                   formPromise, formResult, formError>>

\* The done hook invokes the continuation it was given: () => q.next()
DoneContinue(k) ==
    /\ fpc[k] = "done"
    /\ QNext(queues, [fpc EXCEPT ![k] = "completed"],
             Append(log, Ev(k, "next")), fstate)
    /\ UNCHANGED <<values, submit, options, wres, nextCalled, dataEl, fieldErr,
                   pres, prres, formPromise, formResult, formError>>

\* The pipeline run by q.once('done', ...): the guards of its five steps.
SubmitClickGuardAnySubmit == submit # "none"

SubmitClickGuard == submit # "none" /\ submit # "function"

PostGuard(i) ==
    CASE i = 0 -> options.postfillCallback
      [] i = 1 -> submit # "none" /\ options.wait > 0
      [] i = 2 -> submit # "none" /\ submit = "function"
      [] i = 3 -> SubmitClickGuard
      [] i = 4 -> submit = "none"

PostEvent(i) ==
    CASE i = 0 -> "postfill"
      [] i = 1 -> "sleep"
      [] i = 2 -> "submitFn"
      [] i = 3 -> "clickSubmit"
      [] i = 4 -> "formElement"

\* What the action of each step resolves with.
PostValue(i) ==
    CASE i = 0 -> "postfillResult"
      [] i = 1 -> "void"
      [] i = 2 -> "submitResult"
      [] i = 3 -> "submitElement"
      [] i = 4 -> getRes(wres, 0)

\* Steps whose action calls the caller or the driver and so may reject.
PostMayReject(i) == i \in {0, 2, 3}

PostSteps == 5

PostStep ==
    /\ fstate = "post"
    /\ Len(pres) < PostSteps
    /\ LET i == Len(pres) IN
       IF PostGuard(i)
       THEN /\ log' = Append(log, Ev(0, PostEvent(i)))
            /\ \/ /\ pres' = SetResult(pres, PostValue(i))
                  /\ prres' = PostValue(i)
                  /\ UNCHANGED <<fstate, formPromise, formResult, formError>>
               \/ /\ PostMayReject(i)
                  /\ fstate' = "failed"
                  /\ RejectForm(DriverErr(0))
                  /\ UNCHANGED <<pres, prres>>
       ELSE /\ pres' = SkipStep(pres)
            /\ UNCHANGED <<prres, log, fstate, formPromise, formResult, formError>>
    /\ UNCHANGED <<values, valuesArray, submit, options, wres, queues, fpc, nextCalled,
                   dataParent, dataEl, fieldErr>>

\* .then(res => resolve(res)): the run resolves with its last written result.
PostResolve ==
    /\ fstate = "post"
    /\ Len(pres) = PostSteps
    /\ fstate' = "settled"
    /\ ResolveForm(prres)
    /\ UNCHANGED <<values, valuesArray, submit, options, wres, queues, fpc, nextCalled,
                   dataParent, dataEl, fieldErr, pres, prres, log>>

FormNext ==
    \/ WaitForForm
    \/ WaitVisible
    \/ Prefill
    \/ StartQueue
    \/ \E k \in Fields : WorkerSleep(k)
    \/ \E k \in Fields : WorkerFindParent(k)
    \/ \E k \in Fields : WorkerFill(k)
    \/ \E k \in Fields : WorkerSnapshot(k)
    \/ \E k \in Fields : WorkerCatch(k)
    \/ \E k \in Fields : WorkerNext(k)
    \/ \E k \in Fields : DoneContinue(k)
    \/ PostStep
    \/ PostResolve

\* ------------------------------------------------- a pipeline run (works)
MaxSteps == 3

VARIABLES
    wsteps,    \* the step list: [guard, act] per step
    wpos,      \* number of steps taken from the list
    wresult,   \* w.result, the result register
    wrres,     \* w.rres, the last written result
    wstate,    \* "running" | "resolved" | "rejected"
    werr,      \* w.err
    wout,      \* what the promise of the run settled with
    wlog       \* history: each guard evaluation with the register it saw

worksVars == <<wsteps, wpos, wresult, wrres, wstate, werr, wout, wlog>>

\* A guard is absent, constant false, or reads the previous step's result; an
\* action resolves with a value, returns a rejected promise, or throws.
StepGuards == {"none", "no", "prev"}

StepActs == {"a", "", "reject", "throw"}

StepLists ==
    { sl \in UNION { [1..n -> [guard : StepGuards, act : StepActs]] :
                        n \in 0..MaxSteps } :
        Len(sl) > 0 => sl[1].guard # "prev" }

NoWorkErr == [step |-> -1, how |-> "none"]

WorksInit ==
    /\ wsteps \in StepLists
    /\ wpos = 0
    /\ wresult = <<>>
    /\ wrres = Undefined
    /\ wstate = "running"
    /\ werr = NoWorkErr
    /\ wout = Undefined
    /\ wlog = <<>>

GuardValue(g, result, i) ==
    CASE g = "none" -> TRUE
      [] g = "no"   -> FALSE
      [] g = "prev" -> Truthy(getRes(result, i - 1))

\* The run goes on to its next step only while no step has failed.
WorksContinuesAlways(state) == state # "resolved"

WorksContinues(state) == state = "running"

WorksRejectsWith(err) == err

\* One step of Work.works: take the step, evaluate its guard, and either skip
\* it or run its action and write the result.
WorksStep ==
    /\ WorksContinues(wstate)
    /\ wpos < Len(wsteps)
    /\ LET i == wpos
           st == wsteps[i + 1]
           enabled == GuardValue(st.guard, wresult, i)
       IN /\ wpos' = wpos + 1
          /\ wlog' = Append(wlog, [step |-> i, ran |-> enabled, view |-> wresult])
          /\ IF ~enabled
             THEN /\ wresult' = SkipStep(wresult)
                  /\ UNCHANGED <<wrres, wstate, werr, wout>>
             ELSE IF st.act \in {"reject", "throw"}
             THEN /\ wstate' = "rejected"
                  /\ werr' = [step |-> i, how |-> st.act]
                  /\ wout' = WorksRejectsWith([step |-> i, how |-> st.act])
                  /\ UNCHANGED <<wresult, wrres>>
             ELSE /\ wresult' = SetResult(wresult, st.act)
                  /\ wrres' = st.act
                  /\ UNCHANGED <<wstate, werr, wout>>
    /\ UNCHANGED wsteps

\* No step is left: the run resolves with the last written result.
WorksFinish ==
    /\ wstate = "running"
    /\ wpos = Len(wsteps)
    /\ wstate' = "resolved"
    /\ wout' = wrres
    /\ UNCHANGED <<wsteps, wpos, wresult, wrres, werr, wlog>>

\* ---------------------------------------------------------- fillFormValue
MaxEls == 2

\* The input kinds.  The source numbers them 1..5; only their identity matters.
SELECT == "SELECT"

CHECKBOX == "CHECKBOX"

RADIO == "RADIO"

TEXTAREA == "TEXTAREA"

\* OTHER of the source; the name is a reserved word here.
OTHER_KIND == "OTHER"

getInputTypeByTypeOnly(tag, type) ==
    CASE type = "checkbox" -> CHECKBOX
      [] type = "radio" -> RADIO
      [] tag = "select" -> SELECT
      [] tag = "textarea" -> TEXTAREA
      [] OTHER -> OTHER_KIND

getInputType(tag, type) ==
    CASE tag = "input" ->
            IF type = "checkbox" THEN CHECKBOX
            ELSE IF type = "radio" THEN RADIO
            ELSE OTHER_KIND
      [] tag = "select" -> SELECT
      [] tag = "textarea" -> TEXTAREA
      [] OTHER -> OTHER_KIND

VARIABLES
    data,       \* the field specification: optional, converter, hooks, value
    dom,        \* the elements the target matches, with their attributes
    dom0,       \* the same elements as they were before the call
    fillState,  \* position of fillFormValue's own pipeline
    fillRes,    \* its result register
    items,      \* the element queue: w.getRes(0), shifted by the queue
    count,      \* items.length when the queue was created
    value,      \* the effective value: w.getRes(2)
    el,         \* the element the queue handed to its worker
    xres,       \* result register of the per-element pipeline
    xpos,       \* number of steps taken of the per-element pipeline
    fillErr,    \* what fillFormValue rejected with
    dataElRef,  \* data.el
    flog        \* history of hooks and driver interactions: [el, ev]

fillVars == <<data, dom, dom0, fillState, fillRes, items, count, value, el,
              xres, xpos, fillErr, dataElRef, flog>>

ElementTemplates ==
    { [tag |-> "input", type |-> "checkbox", value |-> "on", checked |-> c,
       required |-> FALSE] : c \in BOOLEAN }
    \cup
    { [tag |-> "input", type |-> "radio", value |-> v, checked |-> FALSE,
       required |-> FALSE] : v \in {"a", "b"} }
    \cup
    { [tag |-> "input", type |-> "text", value |-> "", checked |-> FALSE,
       required |-> r] : r \in BOOLEAN }
    \cup
    { [tag |-> "select", type |-> "select-one", value |-> "", checked |-> FALSE,
       required |-> FALSE],
      [tag |-> "textarea", type |-> "textarea", value |-> "", checked |-> FALSE,
       required |-> FALSE] }

HookNames == {"prefill", "canfill", "onfill", "afterfill"}

FieldValues == {JsTrue, JsFalse, "a", ""}

FillInit ==
    /\ data \in [optional : BOOLEAN, converter : BOOLEAN,
                 hooks : SUBSET HookNames, value : FieldValues]
    /\ dom \in UNION { [1..n -> ElementTemplates] : n \in 0..MaxEls }
    /\ dom0 = dom
    /\ fillState = "find"
    /\ fillRes = <<>>
    /\ items = <<>>
    /\ count = 0
    /\ value = Undefined
    /\ el = 0
    /\ xres = <<>>
    /\ xpos = 0
    /\ fillErr = Null
    /\ dataElRef = 0
    /\ flog = <<>>

FEv(e, what) == [el |-> e, ev |-> what]

\* A caller's converter: here the one that maps every value to 'b'.
Converted(v) == "b"

\* [w => Promise.resolve(data.parent ? data.parent.findElements(data.target)
\*                                   : this.findElements(data.target))]
FindElements ==
    /\ fillState = "find"
    /\ fillRes' = SetResult(fillRes, [i \in 1..Len(dom) |-> i])
    /\ fillState' = "notfound"
    /\ UNCHANGED <<data, dom, dom0, items, count, value, el, xres, xpos,
                   fillErr, dataElRef, flog>>

NotFoundGuardAnyField == Len(getRes(fillRes, 0)) = 0

NotFoundGuardOptionalOnly == Len(getRes(fillRes, 0)) = 0 /\ data.optional

NotFoundGuard == Len(getRes(fillRes, 0)) = 0 /\ ~data.optional

\* [w => Promise.reject(`Element ... not found!`),
\*      w => w.getRes(0).length === 0 && !data.optional]
NotFoundCheck ==
    /\ fillState = "notfound"
    /\ IF NotFoundGuard
       THEN /\ fillState' = "rejected"
            /\ fillErr' = "ElementNotFound"
            /\ UNCHANGED fillRes
       ELSE /\ fillRes' = SkipStep(fillRes)
            /\ fillState' = "convert"
            /\ UNCHANGED fillErr
    /\ UNCHANGED <<data, dom, dom0, items, count, value, el, xres, xpos,
                   dataElRef, flog>>

\* [w => Promise.resolve(typeof data.converter === 'function' ?
\*                       data.converter(data.value) : data.value)]
Convert ==
    /\ fillState = "convert"
    /\ LET v == IF data.converter THEN Converted(data.value) ELSE data.value
       IN /\ fillRes' = SetResult(fillRes, v)
          /\ flog' = IF data.converter THEN Append(flog, FEv(0, "converter"))
                                       ELSE flog
    /\ fillState' = "queue"
    /\ UNCHANGED <<data, dom, dom0, items, count, value, el, xres, xpos,
                   fillErr, dataElRef>>

\* q.next() of the element queue: the next element starts its pipeline, or the
\* queue emits 'done' and fillFormValue resolves.
ElQNext(qs) ==
    IF qs # <<>>
    THEN /\ el' = Head(qs)
         /\ items' = Tail(qs)
         /\ xres' = <<>>
         /\ xpos' = 0
         /\ fillState' = "element"
    ELSE /\ el' = 0
         /\ items' = qs
         /\ fillState' = "resolved"
         /\ UNCHANGED <<xres, xpos>>

\* const items = w.getRes(0); const count = items.length;
\* const value = w.getRes(2); const q = new Queue(items, el => {...})
StartElements ==
    /\ fillState = "queue"
    /\ count' = Len(getRes(fillRes, 0))
    /\ value' = getRes(fillRes, 2)
    /\ ElQNext(getRes(fillRes, 0))
    /\ UNCHANGED <<data, dom, dom0, fillRes, fillErr, dataElRef, flog>>

\* ------------------------------------------- the per-element pipeline
At(i) == fillState = "element" /\ xpos = i

Skip ==
    /\ xres' = SkipStep(xres)
    /\ xpos' = xpos + 1
    /\ UNCHANGED <<fillState, fillErr>>

Write(v) ==
    /\ xres' = SetResult(xres, v)
    /\ xpos' = xpos + 1
    /\ UNCHANGED <<fillState, fillErr>>

\* The pipeline of the element rejects: .catch(err => reject(err))
Fail(err) ==
    /\ xpos' = xpos + 1
    /\ fillState' = "rejected"
    /\ fillErr' = err
    /\ UNCHANGED xres

\* [x => el.getTagName()]
ElTagName ==
    /\ At(0)
    /\ Write(dom[el].tag)
    /\ UNCHANGED <<data, dom, dom0, fillRes, items, count, value, el,
                   dataElRef, flog>>

\* [x => el.getAttribute('type')]
ElType ==
    /\ At(1)
    /\ Write(dom[el].type)
    /\ UNCHANGED <<data, dom, dom0, fillRes, items, count, value, el,
                   dataElRef, flog>>

\* [x => Promise.resolve(this.getInputType(x.getRes(0), x.getRes(1)))]
ElInputType ==
    /\ At(2)
    /\ Write(getInputType(getRes(xres, 0), getRes(xres, 1)))
    /\ UNCHANGED <<data, dom, dom0, fillRes, items, count, value, el,
                   dataElRef, flog>>

MultipleGuardOffByOne == getRes(xres, 2) # RADIO /\ count > MaxEls

MultipleGuard == getRes(xres, 2) # RADIO /\ count > 1

\* [x => Promise.reject(`Multiple elements found for ...!`),
\*      x => x.getRes(2) !== this.constructor.RADIO && count > 1]
ElMultiple ==
    /\ At(3)
    /\ IF MultipleGuard THEN Fail("MultipleElementsFound") ELSE Skip
    /\ UNCHANGED <<data, dom, dom0, fillRes, items, count, value, el,
                   dataElRef, flog>>

\* The custom fill step: data.el = el; prefill; canfill; onfill.  Each hook is
\* the caller's: it may throw, and canfill and onfill may reject.
ElCustom ==
    /\ At(4)
    /\ dataElRef' = el
    /\ LET pre == IF "prefill" \in data.hooks
                  THEN Append(flog, FEv(el, "prefill")) ELSE flog
           can == IF "canfill" \in data.hooks
                  THEN Append(pre, FEv(el, "canfill")) ELSE pre
           canT == Append(can, FEv(el, "canfill=>true"))
           canF == IF "canfill" \in data.hooks
                   THEN Append(can, FEv(el, "canfill=>false")) ELSE can
           on  == IF "onfill" \in data.hooks
                  THEN Append(canF, FEv(el, "onfill")) ELSE canF
       IN \/ /\ "prefill" \in data.hooks     \* prefill throws
             /\ flog' = pre
             /\ Fail("HookError")
          \/ /\ "canfill" \in data.hooks     \* canfill throws or rejects
             /\ flog' = can
             /\ Fail("HookError")
          \/ /\ "canfill" \in data.hooks     \* canfill resolves truthy
             /\ flog' = canT
             /\ Write(JsFalse)
          \/ /\ "onfill" \in data.hooks      \* onfill throws or rejects
             /\ flog' = on
             /\ Fail("HookError")
          \/ /\ "onfill" \in data.hooks      \* onfill resolves
             /\ flog' = on
             /\ Write(JsFalse)
          \/ /\ "onfill" \notin data.hooks   \* no hook filled the element
             /\ flog' = canF
             /\ Write(JsTrue)
    /\ UNCHANGED <<data, dom, dom0, fillRes, items, count, value, el>>

StrategyGuardAnyCustom(kind) == getRes(xres, 2) = kind

StrategyGuard(kind) == getRes(xres, 2) = kind /\ Truthy(getRes(xres, 4))

\* The call of a built-in fill strategy on the element.
Called(name) == Append(flog, FEv(el, name))

\* fillSelect: click the option whose value attribute is the value; the lookup
\* fails when there is none.
ElSelect ==
    /\ At(5)
    /\ IF StrategyGuard(SELECT)
       THEN \/ /\ flog' = Append(Called("fillSelect"), FEv(el, "clickOption"))
               /\ Write("option")
            \/ /\ flog' = Append(Called("fillSelect"), FEv(el, "findOption"))
               /\ Fail("DriverError")
       ELSE Skip /\ UNCHANGED flog
    /\ UNCHANGED <<data, dom, dom0, fillRes, items, count, value, el, dataElRef>>

\* a == b for a string a and a value b of the model.
LooseEq(a, b) ==
    CASE b = JsTrue  -> a = "1"
      [] b = JsFalse -> a \in {"", "0"}
      [] OTHER       -> a = b

RadioClickGuardAlways(attr, v) == TRUE

RadioClickGuard(attr, v) == LooseEq(attr, v)

\* fillRadio: [w => el.getAttribute('value')],
\*            [w => el.click(), w => w.getRes(0) == value]
ElRadio ==
    /\ At(6)
    /\ IF StrategyGuard(RADIO)
       THEN IF RadioClickGuard(dom[el].value, value)
            THEN /\ flog' = Append(Called("fillRadio"), FEv(el, "click"))
                 /\ dom' = [dom EXCEPT ![el].checked = TRUE]
                 /\ Write(Null)
            ELSE /\ flog' = Called("fillRadio")
                 /\ Write(dom[el].value)
                 /\ UNCHANGED dom
       ELSE Skip /\ UNCHANGED <<flog, dom>>
    /\ UNCHANGED <<data, dom0, fillRes, items, count, value, el, dataElRef>>

\* el.isSelected() returns a promise of the checked state.
isSelected(e) == <<"Promise", JsBool(dom[e].checked)>>

\* The primitive a comparison with == or != turns an object into.
ToPrimitive(obj) == "[object " \o obj[1] \o "]"

\* w => el.isSelected() != value
CheckboxClickGuard(e, v) == ~LooseEq(ToPrimitive(isSelected(e)), v)

\* fillCheckbox: [w => el.click(), w => el.isSelected() != value]
ElCheckbox ==
    /\ At(7)
    /\ IF StrategyGuard(CHECKBOX)
       THEN IF CheckboxClickGuard(el, value)
            THEN /\ flog' = Append(Called("fillCheckbox"), FEv(el, "click"))
                 /\ dom' = [dom EXCEPT ![el].checked = ~@]
                 /\ Write(Null)
            ELSE /\ flog' = Called("fillCheckbox")
                 /\ Write(Undefined)
                 /\ UNCHANGED dom
       ELSE Skip /\ UNCHANGED <<flog, dom>>
    /\ UNCHANGED <<data, dom0, fillRes, items, count, value, el, dataElRef>>

\* What typing v leaves in the element: nothing is typed for null.
Typed(v) == IF v = Null THEN "" ELSE v

\* fillTextarea: clear, type the value and read it back (TextNext has the
\* steps).
ElTextarea ==
    /\ At(8)
    /\ IF StrategyGuard(TEXTAREA)
       THEN /\ flog' = Append(Append(Called("fillTextarea"), FEv(el, "clear")),
                            FEv(el, "sendKeys"))
            /\ \/ /\ dom' = [dom EXCEPT ![el].value = Typed(value)]
                  /\ Write(Typed(value))
               \/ /\ value # Null      \* the value read back is another
                  /\ dom' = [dom EXCEPT ![el].value = "?"]
                  /\ Fail("FillValueMismatch")
       ELSE Skip /\ UNCHANGED <<flog, dom>>
    /\ UNCHANGED <<data, dom0, fillRes, items, count, value, el, dataElRef>>

\* fillInput: clear, then type the value.
ElOther ==
    /\ At(9)
    /\ IF StrategyGuard(OTHER_KIND)
       THEN /\ flog' = Append(Append(Called("fillInput"), FEv(el, "clear")),
                            FEv(el, "sendKeys"))
            /\ dom' = [dom EXCEPT ![el].value = Typed(value)]
            /\ Write(Null)
       ELSE Skip /\ UNCHANGED <<flog, dom>>
    /\ UNCHANGED <<data, dom0, fillRes, items, count, value, el, dataElRef>>

\* el.isEnabled() succeeds, fails with a StaleElementReferenceError, or fails
\* with another error.
EnabledOutcomes == {"enabled", "staleError", "otherError"}

\* a probe that passes every failure of isEnabled on
isStaleRejectsAll(outcome) == IF outcome = "enabled" THEN JsFalse ELSE "reject"

\* isStale: .then(() => resolve(false)), and in the catch resolve(true) for
\* err instanceof error.StaleElementReferenceError, reject(err) otherwise
isStale(outcome) ==
    IF outcome = "enabled" THEN JsFalse
    ELSE IF outcome = "staleError" THEN JsTrue
    ELSE "reject"

\* [x => this.isStale(el)]
ElStale ==
    /\ At(10)
    /\ \E outcome \in EnabledOutcomes :
          /\ flog' = Append(flog, FEv(el, outcome))
          /\ IF isStale(outcome) = "reject"
             THEN Fail("DriverError")
             ELSE Write(isStale(outcome))
    /\ UNCHANGED <<data, dom, dom0, fillRes, items, count, value, el,
                   dataElRef>>

\* getAttribute of a boolean attribute: 'true' when present, null when not.
RequiredAttr(e) == IF dom[e].required THEN "true" ELSE Null

\* [x => el.getAttribute('required'),
\*      x => x.getRes(2) !== this.constructor.CHECKBOX && !x.getRes(10)]
RequiredReadGuardIgnoringStale == getRes(xres, 2) # CHECKBOX

RequiredReadGuard == getRes(xres, 2) # CHECKBOX /\ ~Truthy(getRes(xres, 10))

ElRequired ==
    /\ At(11)
    /\ IF RequiredReadGuard
       THEN /\ flog' = Append(flog, FEv(el, "readRequired"))
            /\ Write(RequiredAttr(el))
       ELSE Skip /\ UNCHANGED flog
    /\ UNCHANGED <<data, dom, dom0, fillRes, items, count, value, el,
                   dataElRef>>

\* [x => el.getAttribute('value'), x => x.getRes(11) === 'true']
ElValue ==
    /\ At(12)
    /\ IF getRes(xres, 11) = "true"
       THEN /\ flog' = Append(flog, FEv(el, "readValue"))
            /\ Write(dom[el].value)
       ELSE Skip /\ UNCHANGED flog
    /\ UNCHANGED <<data, dom, dom0, fillRes, items, count, value, el,
                   dataElRef>>

\* [x => Promise.reject(`Input ... is required!`),
\*      x => x.getRes(11) === 'true' && x.getRes(12) === '']
ElRequiredCheck ==
    /\ At(13)
    /\ IF getRes(xres, 11) = "true" /\ getRes(xres, 12) = ""
       THEN Fail("RequiredFieldEmpty")
       ELSE Skip
    /\ UNCHANGED <<data, dom, dom0, fillRes, items, count, value, el,
                   dataElRef, flog>>

\* [x => data.afterfill(el), x => typeof data.afterfill === 'function']
ElAfterfill ==
    /\ At(14)
    /\ IF "afterfill" \in data.hooks
       THEN /\ flog' = Append(flog, FEv(el, "afterfill"))
            /\ \/ Write(Null)
               \/ Fail("HookError")
       ELSE Skip /\ UNCHANGED flog
    /\ UNCHANGED <<data, dom, dom0, fillRes, items, count, value, el, dataElRef>>

ElementSteps == 15

\* .then(() => q.next()) of the per-element pipeline
ElNext ==
    /\ At(ElementSteps)
    /\ ElQNext(items)
    /\ UNCHANGED <<data, dom, dom0, fillRes, count, value, fillErr,
                   dataElRef, flog>>

FillIdle ==
    /\ data = [optional |-> FALSE, converter |-> FALSE, hooks |-> {},
               value |-> ""]
    /\ dom = <<>>
    /\ dom0 = <<>>
    /\ fillState = "idle"
    /\ fillRes = <<>>
    /\ items = <<>>
    /\ count = 0
    /\ value = Undefined
    /\ el = 0
    /\ xres = <<>>
    /\ xpos = 0
    /\ fillErr = Null
    /\ dataElRef = 0
    /\ flog = <<>>

FillNext ==
    \/ FindElements
    \/ NotFoundCheck
    \/ Convert
    \/ StartElements
    \/ ElTagName
    \/ ElType
    \/ ElInputType
    \/ ElMultiple
    \/ ElCustom
    \/ ElSelect
    \/ ElRadio
    \/ ElCheckbox
    \/ ElTextarea
    \/ ElOther
    \/ ElStale
    \/ ElRequired
    \/ ElValue
    \/ ElRequiredCheck
    \/ ElAfterfill
    \/ ElNext

\* ------------------------------------------- fillTextarea, fillSlashSafe
MaxLen == 3

\* Strings are sequences of characters.
Chars == {"a", "b", "/"}

Strings == UNION { [1..n -> Chars] : n \in 0..MaxLen }

\* str.indexOf(ch)
indexOf(str, ch) ==
    IF \E i \in DOMAIN str : str[i] = ch
    THEN (CHOOSE i \in DOMAIN str :
              str[i] = ch /\ \A j \in 1..(i - 1) : str[j] # ch) - 1
    ELSE -1

\* str.substr(from) and str.substr(0, len)
substrFrom(str, from) == SubSeq(str, from + 1, Len(str))

substrTo(str, len) == SubSeq(str, 1, len)

VARIABLES
    tvalue,        \* the value to fill: [null, str]
    useKey,        \* clear with Ctrl+A, Delete instead of el.clear()
    safeTextArea,  \* this.safeTextArea
    eatsSlash,     \* the browser swallows a '/' sent as a key
    content,       \* the value of the textarea element
    tpos,          \* number of steps taken of fillTextarea's pipeline
    tres,          \* its result register
    looping,       \* fillSlashSafe is running
    rest,          \* fillSlashSafe's value: what is still to be typed
    tstate,        \* "running" | "resolved" | "rejected"
    terr,          \* what fillTextarea rejected with
    tlog           \* history of driver calls: [op, text]

textInputs == <<tvalue, useKey, safeTextArea, eatsSlash>>

textVars == <<tvalue, useKey, safeTextArea, eatsSlash, content, tpos, tres,
              looping, rest, tstate, terr, tlog>>

TextInit ==
    /\ tvalue \in [null : {FALSE}, str : Strings]
                  \cup {[null |-> TRUE, str |-> <<>>]}
    /\ useKey \in BOOLEAN
    /\ safeTextArea \in BOOLEAN
    /\ eatsSlash \in BOOLEAN
    /\ content \in {<<>>, <<"b">>}
    /\ tpos = 0
    /\ tres = <<>>
    /\ looping = FALSE
    /\ rest = <<>>
    /\ tstate = "running"
    /\ terr = Null
    /\ tlog = <<>>

TEv(op, text) == [op |-> op, text |-> text]

\* const textAreaSafe = this.safeTextArea && value && value.indexOf('/') >= 0
textAreaSafe ==
    /\ safeTextArea
    /\ ~tvalue.null /\ tvalue.str # <<>>
    /\ indexOf(tvalue.str, "/") >= 0

\* What el.sendKeys(str) adds to the element.
Keyed(str) ==
    IF eatsSlash THEN SelectSeq(str, LAMBDA c : c # "/") ELSE str

TAt(i) == tstate = "running" /\ tpos = i /\ ~looping

TSkip == tres' = SkipStep(tres) /\ tpos' = tpos + 1 /\ UNCHANGED <<tstate, terr>>

TWrite(v) ==
    tres' = SetResult(tres, v) /\ tpos' = tpos + 1 /\ UNCHANGED <<tstate, terr>>

TFail(err) ==
    tstate' = "rejected" /\ terr' = err /\ tpos' = tpos + 1 /\ UNCHANGED tres

\* [w => el.clear(), w => !useKey]
TextClear ==
    /\ TAt(0)
    /\ IF ~useKey
       THEN \/ /\ content' = <<>>
               /\ tlog' = Append(tlog, TEv("clear", <<>>))
               /\ TWrite(Null)
            \/ /\ TFail("DriverError")
               /\ tlog' = Append(tlog, TEv("clear", <<>>))
               /\ UNCHANGED content
       ELSE TSkip /\ UNCHANGED <<content, tlog>>
    /\ UNCHANGED <<textInputs, looping, rest>>

\* [w => el.sendKeys(Key.CONTROL, 'a', Key.DELETE), w => useKey]
TextKeyClear ==
    /\ TAt(1)
    /\ IF useKey
       THEN /\ content' = <<>>
            /\ tlog' = Append(tlog, TEv("keyClear", <<>>))
            /\ TWrite(Null)
       ELSE TSkip /\ UNCHANGED <<content, tlog>>
    /\ UNCHANGED <<textInputs, looping, rest>>

\* [w => el.sendKeys(value), w => null !== value && !textAreaSafe]
TextSendKeys ==
    /\ TAt(2)
    /\ IF ~tvalue.null /\ ~textAreaSafe
       THEN /\ content' = content \o Keyed(tvalue.str)
            /\ tlog' = Append(tlog, TEv("sendKeys", tvalue.str))
            /\ TWrite(Null)
       ELSE TSkip /\ UNCHANGED <<content, tlog>>
    /\ UNCHANGED <<textInputs, looping, rest>>

\* [w => this.fillSlashSafe(el, value), w => null !== value && textAreaSafe]
TextSlashSafe ==
    /\ TAt(3)
    /\ IF ~tvalue.null /\ textAreaSafe
       THEN /\ looping' = TRUE
            /\ rest' = tvalue.str
            /\ UNCHANGED <<tres, tpos, tstate, terr>>
       ELSE TSkip /\ UNCHANGED <<looping, rest>>
    /\ UNCHANGED <<textInputs, content, tlog>>

\* The events the injected script dispatches on the element.  The script is
\* `arguments[0].value += '/';`: it assigns the value and dispatches nothing
\* (fillValueUsingScript, which dispatches new Event('change'), is not the
\* script fillSlashSafe runs).
SlashScriptDispatches == <<>>

SlashGuardAlways(idx) == TRUE

\* w => idx >= 0
SlashGuard(idx) == idx >= 0

\* f() of fillSlashSafe: type the text before the next '/', then add the '/'
\* by script; resolve when nothing is left.
SlashSafeStep ==
    /\ tstate = "running" /\ looping
    /\ IF Len(rest) > 0
       THEN LET idx == indexOf(rest, "/")
                seg == IF idx >= 0 THEN substrTo(rest, idx) ELSE rest
                keyed == IF Len(seg) > 0
                         THEN Append(tlog, TEv("sendKeys", seg)) ELSE tlog
                typed == IF Len(seg) > 0
                         THEN content \o Keyed(seg) ELSE content
            IN /\ rest' = IF idx >= 0 THEN substrFrom(rest, idx + 1) ELSE <<>>
               /\ IF SlashGuard(idx)
                  THEN /\ tlog' = Append(keyed, TEv("script", <<"/">>)) \o
                                 [i \in DOMAIN SlashScriptDispatches |->
                                    TEv("dispatch", <<SlashScriptDispatches[i]>>)]
                       /\ content' = typed \o <<"/">>
                  ELSE /\ tlog' = keyed
                       /\ content' = typed
               /\ UNCHANGED <<tres, tpos, looping, tstate, terr>>
       ELSE /\ looping' = FALSE
            /\ TWrite(Null)
            /\ UNCHANGED <<rest, content, tlog>>
    /\ UNCHANGED textInputs

\* [w => el.getAttribute('value'), w => null !== value]
TextReadBack ==
    /\ TAt(4)
    /\ IF ~tvalue.null
       THEN /\ tlog' = Append(tlog, TEv("read", content))
            /\ TWrite(content)
       ELSE TSkip /\ UNCHANGED tlog
    /\ UNCHANGED <<textInputs, content, looping, rest>>

MismatchGuardNever == FALSE

\* w => null !== value && w.getRes(4) !== value
MismatchGuard == ~tvalue.null /\ getRes(tres, 4) # tvalue.str

\* [w => Promise.reject(`Unable to fill textarea, expected ... but got ...!`)]
TextMismatch ==
    /\ TAt(5)
    /\ IF MismatchGuard THEN TFail("FillValueMismatch") ELSE TSkip
    /\ UNCHANGED <<textInputs, content, looping, rest, tlog>>

TextSteps == 6

TextFinish ==
    /\ TAt(TextSteps)
    /\ tstate' = "resolved"
    /\ UNCHANGED <<textInputs, content, tpos, tres, looping, rest, terr, tlog>>

TextIdle ==
    /\ tvalue = [null |-> TRUE, str |-> <<>>]
    /\ useKey = FALSE
    /\ safeTextArea = FALSE
    /\ eatsSlash = FALSE
    /\ content = <<>>
    /\ tpos = 0
    /\ tres = <<>>
    /\ looping = FALSE
    /\ rest = <<>>
    /\ tstate = "idle"
    /\ terr = Null
    /\ tlog = <<>>

TextNext ==
    \/ TextClear
    \/ TextKeyClear
    \/ TextSendKeys
    \/ TextSlashSafe
    \/ SlashSafeStep
    \/ TextReadBack
    \/ TextMismatch
    \/ TextFinish

\* ------------------------------------------- fillSelect, click, findElement
MaxSelects == 2

MaxOptions == 2

OptionValues == {"US", "ID"}

OptionLists == UNION { [1..n -> OptionValues] : n \in 0..MaxOptions }

VARIABLES
    page,      \* the select elements of the document, in document order, each
               \* with the value attributes of its options
    sel,       \* el: the select element the target matched
    sval,      \* value: the effective value
    spos,      \* number of steps taken of click's pipeline
    found,     \* w.getRes(0) of click: the option found, <<select, option>>
    clicked,   \* the options that received a click
    sstate,    \* "running" | "resolved" | "rejected"
    serr       \* what fillSelect rejected with

selectVars == <<page, sel, sval, spos, found, clicked, sstate, serr>>

NoOption == <<0, 0>>

SelectInit ==
    /\ page \in UNION { [1..n -> OptionLists] : n \in 1..MaxSelects }
    /\ sel \in DOMAIN page
    /\ sval \in OptionValues
    /\ spos = 0
    /\ found = NoOption
    /\ clicked = <<>>
    /\ sstate = "running"
    /\ serr = Null

\* The options an XPath search looks at.  The expression of fillSelect,
\* //option[@value="..."], starts with '//': it is anchored at the root of the
\* document, whatever element findElement is called on.
XPathScope(e) ==
    { x \in (DOMAIN page) \X (1..MaxOptions) : x[2] \in DOMAIN page[x[1]] }

\* By.xpath(`//option[@value="${value}"]`)
OptionsWithValue(e, v) == { x \in XPathScope(e) : page[x[1]][x[2]] = v }

DocumentOrder(x, y) == x[1] < y[1] \/ (x[1] = y[1] /\ x[2] <= y[2])

\* [w => this.findElement(data)]: data.el.findElement(data.data) resolves
\* with the first match in document order and rejects when there is none.
SelectFind ==
    /\ sstate = "running" /\ spos = 0
    /\ LET m == OptionsWithValue(sel, sval) IN
       IF m # {}
       THEN /\ found' = CHOOSE x \in m : \A y \in m : DocumentOrder(x, y)
            /\ spos' = 1
            /\ UNCHANGED <<sstate, serr>>
       ELSE /\ sstate' = "rejected"
            /\ serr' = "NoSuchElementError"
            /\ spos' = 1
            /\ UNCHANGED found
    /\ UNCHANGED <<page, sel, sval, clicked>>

\* [w => w.getRes(0).click()]
SelectClick ==
    /\ sstate = "running" /\ spos = 1
    /\ clicked' = Append(clicked, found)
    /\ spos' = 2
    /\ UNCHANGED <<page, sel, sval, found, sstate, serr>>

\* [w => Promise.resolve(w.getRes(0))], and fillSelect resolves with it.
SelectResolve ==
    /\ sstate = "running" /\ spos = 2
    /\ sstate' = "resolved"
    /\ spos' = 3
    /\ UNCHANGED <<page, sel, sval, found, clicked, serr>>

SelectIdle ==
    /\ page = <<>>
    /\ sel = 0
    /\ sval = ""
    /\ spos = 0
    /\ found = NoOption
    /\ clicked = <<>>
    /\ sstate = "idle"
    /\ serr = Null

SelectNext == SelectFind \/ SelectClick \/ SelectResolve

\* ------------------------------------------------------------ getInputType
TagNames == {"input", "select", "textarea", "button", "div", "a", "INPUT"}

TypeAttrs == {"checkbox", "radio", "text", "submit", "select-one", "textarea",
              "CHECKBOX", Null}

VARIABLES
    ctag,    \* tag: the tag name of the element
    ctype,   \* type: its type attribute
    ckind    \* what getInputType returned

classifyVars == <<ctag, ctype, ckind>>

ClassifyInit ==
    /\ ctag \in TagNames
    /\ ctype \in TypeAttrs
    /\ ckind = Undefined

\* this.getInputType(tag, type)
Classify ==
    /\ ckind = Undefined
    /\ ckind' = getInputType(ctag, ctype)
    /\ UNCHANGED <<ctag, ctype>>

ClassifyIdle ==
    /\ ctag = ""
    /\ ctype = ""
    /\ ckind = "idle"

ClassifyNext == Classify

\* -------------------------------------------------------- WorkErrorLogger
MaxObs == 3

\* The WebRobot instances: each calls this.works with its own options.loginfo.
Robots == {1, 2}

Tags == {"t1", "t2"}

\* WorkErrorLogger.name, the key of a logger created without a tag.
ClassName == "WorkErrorLogger"

\* What a step can fail with: two Error instances, an Error that wraps a
\* cause, an Error of a class registered with expectErr, and a string.
Errs ==
    { [id |-> "e1", isError |-> TRUE,  cause |-> FALSE, expected |-> FALSE],
      [id |-> "e2", isError |-> TRUE,  cause |-> FALSE, expected |-> FALSE],
      [id |-> "ec", isError |-> TRUE,  cause |-> TRUE,  expected |-> FALSE],
      [id |-> "ex", isError |-> TRUE,  cause |-> FALSE, expected |-> TRUE],
      [id |-> "s",  isError |-> FALSE, cause |-> FALSE, expected |-> FALSE] }

\* w.current.info, the source text of the failing step, as lines of characters.
Infos ==
    { << <<"x">> >>,
      << <<"x", " ">>, <<" ", " ", "y">>, <<" ", "z">> >> }

VARIABLES
    loginfo,   \* options.loginfo.tag of each robot, or undefined
    loggers,   \* WorkErrorLogger._loggers: the errors list of each logger made
    nobs,      \* number of failed steps reported so far
    out        \* history: what each report made the logger print

loggerVars == <<loginfo, loggers, nobs, out>>

LoggerInit ==
    /\ loginfo \in [Robots -> Tags \cup {Undefined}]
    /\ loggers = [n \in {} |-> <<>>]
    /\ nobs = 0
    /\ out = <<>>

\* WebRobot.isErr(err): not an instance of an expected error class.
isErr(err) == ~err.expected

\* const name = parameters.tag || this.name
LoggerName(tag) == IF Truthy(tag) THEN tag ELSE ClassName

\* WorkErrorLogger.create(parameters): one logger for each name.
create(tag) ==
    IF LoggerName(tag) \in DOMAIN loggers
    THEN loggers
    ELSE [n \in DOMAIN loggers \cup {LoggerName(tag)} |->
              IF n \in DOMAIN loggers THEN loggers[n] ELSE <<>>]

includesNever(errors, err) == FALSE

\* this.errors.includes(w.err)
includes(errors, err) == \E i \in DOMAIN errors : errors[i] = err

RECURSIVE trimEnd(_)
trimEnd(line) ==
    IF line # <<>> /\ line[Len(line)] = " "
    THEN trimEnd(SubSeq(line, 1, Len(line) - 1))
    ELSE line

RECURSIVE trimStart(_)
trimStart(line) ==
    IF line # <<>> /\ Head(line) = " " THEN trimStart(Tail(line)) ELSE line

\* The length of the match of /^\s+/, 0 when there is none.
LeadingSpace(line) == Len(line) - Len(trimStart(line))

\* unindent(lines): the first line trimmed, the others without the smallest
\* indentation found among them.
unindent(lines) ==
    LET others == Tail(lines)
        widths == { LeadingSpace(others[i]) : i \in DOMAIN others } \ {0}
        indent == IF widths = {} THEN 0
                  ELSE CHOOSE n \in widths : \A k \in widths : n <= k
    IN <<trimEnd(trimStart(Head(lines)))>> \o
       [i \in DOMAIN others |->
            IF indent > 0 /\ LeadingSpace(others[i]) >= indent
            THEN SubSeq(others[i], indent + 1, Len(others[i]))
            ELSE others[i]]

EllipsisGuardAlways(lines) == TRUE

\* lines.length > 1
EllipsisGuard(lines) == Len(lines) > 1

\* lines[0].trimEnd() + (lines.length > 1 ? ' ...' : '')
SummaryLine(lines) ==
    trimEnd(lines[1]) \o
    (IF EllipsisGuard(lines) THEN <<" ", ".", ".", ".">> ELSE <<>>)

\* a test that forgets the cause
DumpGuardIgnoringCause(errors, err) == ~includes(errors, err)

\* !this.errors.includes(w.err) && !w.err.cause
DumpGuard(errors, err) == ~includes(errors, err) /\ ~err.cause

\* A step of a pipeline of robot r fails with err: this.works fetches the
\* logger of the robot's tag and Work.works calls the onerror it installed.
Report(r, err, info) ==
    /\ nobs < MaxObs
    /\ nobs' = nobs + 1
    /\ LET name == LoggerName(loginfo[r])
           made == create(loginfo[r])
           entry(form, text) ==
               [robot |-> r, logger |-> name, err |-> err, info |-> info,
                form |-> form, text |-> text]
       IN IF err.isError /\ isErr(err)
          THEN IF DumpGuard(made[name], err)
               THEN /\ loggers' = [made EXCEPT ![name] = Append(@, err)]
                    /\ out' = Append(out, entry("dump", unindent(info)))
               ELSE /\ loggers' = made
                    /\ out' = Append(out, entry("summary", <<SummaryLine(info)>>))
          ELSE /\ loggers' = made
               /\ out' = Append(out, entry("none", <<>>))
    /\ UNCHANGED loginfo

LoggerIdle ==
    /\ loginfo = [r \in {} |-> Undefined]
    /\ loggers = [n \in {} |-> <<>>]
    /\ nobs = 0
    /\ out = <<>>

LoggerNext == \E r \in Robots, err \in Errs, info \in Infos : Report(r, err, info)

\* ----------------------------------------------------------------- truncate
MaxNodes == 3

\* The serialized length of a node without its children: <a></a>, each
\* attribute as ' p="v"', a text node as 'tx'.
ElementLen == 7

AttrLen == 6

TextLen == 2

AttrLists == {<<>>, <<"p">>, <<"p", "q">>}

Limits == {0, 4, 8, 14, 20}

VARIABLES
    parent,   \* the parsed tree: the parent of each node, 0 for the root
    nodeType, \* "element" | "text" for each node
    alive,    \* the nodes still in the tree
    attrs,    \* the attribute names of each element, in insertion order
    maxlen,   \* maxlen
    isString, \* typeof html === 'string'
    node,     \* the cursor of the shrink loop
    attr,     \* whether an attribute was removed
    hstate,   \* "call" | "loop" | "done"
    spun,     \* an iteration of the loop changed nothing
    marker    \* the marker added at the end: "none" | "attr" | "text"

truncVars == <<parent, nodeType, alive, attrs, maxlen, isString, node, attr,
               hstate, spun, marker>>

Children(n) == { c \in alive : parent[c] = n }

\* Trees: children follow their parent, text nodes have no children. For an
\* argument that is not a string the tree stands for what its length property
\* would read, which the typeof test never looks at.
TruncInit ==
    /\ \E n \in 0..MaxNodes :
          /\ parent \in [1..n -> 0..MaxNodes]
          /\ nodeType \in [1..n -> {"element", "text"}]
          /\ attrs \in [1..n -> AttrLists]
          /\ alive = 1..n
    /\ \A c \in alive :
          /\ parent[c] < c
          /\ parent[c] # 0 => nodeType[parent[c]] = "element"
          /\ nodeType[c] = "text" => attrs[c] = <<>>
    /\ maxlen \in Limits
    /\ isString \in BOOLEAN
    /\ node = 0
    /\ attr = FALSE
    /\ hstate = "call"
    /\ spun = FALSE
    /\ marker = "none"

NodeLen(c) ==
    IF nodeType[c] = "text" THEN TextLen ELSE ElementLen + AttrLen * Len(attrs[c])

RECURSIVE SumLen(_)
SumLen(S) ==
    IF S = {} THEN 0
    ELSE LET c == CHOOSE x \in S : TRUE IN NodeLen(c) + SumLen(S \ {c})

\* root.outerHTML.length
OuterLen == SumLen(alive)

RECURSIVE Under(_, _)
\* n is c or a descendant of c.
Under(n, c) == IF n = c THEN TRUE ELSE IF n = 0 THEN FALSE ELSE Under(parent[n], c)

\* p.removeChild(c)
removeChild(c) == { n \in alive : ~Under(n, c) }

lastChild(n) == CHOOSE c \in Children(n) : \A d \in Children(n) : d <= c

firstChild(n) == CHOOSE c \in Children(n) : \A d \in Children(n) : c <= d

\* html.length > maxlen, without the typeof test
TooLongAnyType == OuterLen > maxlen

\* typeof html === 'string' && html.length > maxlen
TooLong == isString /\ OuterLen > maxlen

\* if (typeof html === 'string' && html.length > maxlen) { ... } return html
TruncCall ==
    /\ hstate = "call"
    /\ hstate' = IF TooLong THEN "loop" ELSE "done"
    /\ UNCHANGED <<parent, nodeType, alive, attrs, maxlen, isString, node, attr,
                   spun, marker>>

\* a loop that gives up once the cursor has left the root
LoopingAtRootOnly == hstate = "loop" /\ OuterLen > maxlen /\ node = 0

\* while (root.outerHTML.length > maxlen)
Looping == hstate = "loop" /\ OuterLen > maxlen

\* node instanceof HTMLElement: the root is one.
IsElement(n) == IF n = 0 THEN TRUE ELSE nodeType[n] = "element"

\* node.removeChild(node.lastChild)
TruncRemoveLastChild ==
    /\ Looping
    /\ IsElement(node) /\ Cardinality(Children(node)) > 1
    /\ alive' = removeChild(lastChild(node))
    /\ UNCHANGED <<parent, nodeType, attrs, maxlen, isString, node, attr, hstate, spun, marker>>

\* node = node.firstChild
TruncDescend ==
    /\ Looping
    /\ IsElement(node) /\ Cardinality(Children(node)) = 1
    /\ node' = firstChild(node)
    /\ UNCHANGED <<parent, nodeType, alive, attrs, maxlen, isString, attr, hstate, spun, marker>>

\* top = true: a text node, or a childless element below the top level, is
\* removed from its parent, which becomes the cursor.
TruncUp ==
    /\ Looping
    /\ node # 0
    /\ IF IsElement(node)
       THEN Children(node) = {} /\ parent[node] # 0
       ELSE TRUE
    /\ alive' = removeChild(node)
    /\ node' = parent[node]
    /\ UNCHANGED <<parent, nodeType, attrs, maxlen, isString, attr, hstate, spun, marker>>

TopLevelLeaf ==
    node # 0 /\ IsElement(node) /\ Children(node) = {} /\ parent[node] = 0

\* the first name of the list
AttrToRemoveFirst(names) == names[1]

\* attrs[attrs.length - 1] of const attrs = Object.keys(node.attrs)
AttrToRemove(names) == names[Len(names)]

\* node.removeAttribute(name)
removeAttribute(names, name) == SelectSeq(names, LAMBDA a : a # name)

\* node.removeAttribute(attrs[attrs.length - 1]); attr = true
TruncRemoveAttr ==
    /\ Looping
    /\ TopLevelLeaf
    /\ attrs[node] # <<>>
    /\ attrs' = [attrs EXCEPT ![node] = removeAttribute(@, AttrToRemove(@))]
    /\ attr' = TRUE
    /\ UNCHANGED <<parent, nodeType, alive, maxlen, isString, node, hstate, spun, marker>>

\* A childless top-level element without attributes: no branch of the loop
\* body does anything, and the loop condition is evaluated again.
TruncSpin ==
    /\ Looping
    /\ TopLevelLeaf
    /\ attrs[node] = <<>>
    /\ spun' = TRUE
    /\ UNCHANGED <<parent, nodeType, alive, attrs, maxlen, isString, node, attr, hstate, marker>>

\* if (attr) node.setAttribute('...', '') else node.append(new TextNode('...'))
TruncMark ==
    /\ hstate = "loop" /\ ~Looping
    /\ marker' = IF attr THEN "attr" ELSE "text"
    /\ hstate' = "done"
    /\ UNCHANGED <<parent, nodeType, alive, attrs, maxlen, isString, node, attr, spun>>

TruncIdle ==
    /\ parent = <<>>
    /\ nodeType = <<>>
    /\ alive = {}
    /\ attrs = <<>>
    /\ maxlen = 0
    /\ isString = FALSE
    /\ node = 0
    /\ attr = FALSE
    /\ hstate = "idle"
    /\ spun = FALSE
    /\ marker = "none"

TruncNext ==
    \/ TruncCall
    \/ TruncRemoveLastChild
    \/ TruncDescend
    \/ TruncUp
    \/ TruncRemoveAttr
    \/ TruncSpin
    \/ TruncMark

\* ------------------------------------------------- constructor, getDriver
MaxCalls == 3

MaxCloses == 1

\* Callers of open() on the one instance; each call runs getDriver() as the
\* first step of its pipeline.
Callers == {1, 2}

\* this.browsers = [CHROME, FIREFOX, OPERA]
browsers == {"chrome", "firefox", "opera"}

\* options.browser as the caller gives it.
BrowserNames == browsers \cup {"edge"}

VARIABLES
    browser,       \* this.browser
    robot,         \* "new" | "constructed" | "threw"
    ready,         \* this.ready
    setupPending,  \* the Firefox profile is being created
    driver,        \* this.driver: 0 when unset, else the handle
    created,       \* number of createDriver() invocations so far
    base,          \* created at construction or at the last close
    gpc,           \* position of each caller in getDriver
    pending,       \* the handle createDriver() will give each caller
    got,           \* the handle getDriver() returned to each caller
    ncalls,        \* number of open()/getDriver() calls so far
    ncloses        \* number of close() calls so far

driverVars == <<browser, robot, ready, setupPending, driver, created, base,
                gpc, pending, got, ncalls, ncloses>>

DriverInit ==
    /\ browser \in BrowserNames
    /\ robot = "new"
    /\ ready = FALSE
    /\ setupPending = FALSE
    /\ driver = 0
    /\ created = 0
    /\ base = 0
    /\ gpc = [c \in Callers |-> "idle"]
    /\ pending = [c \in Callers |-> 0]
    /\ got = [c \in Callers |-> 0]
    /\ ncalls = 0
    /\ ncloses = 0

\* The constructor stores options.browser and this.browsers and compares
\* nothing: it returns the object whatever the name.
ConstructorOutcome(b) == "constructed"

\* new WebRobot(options): the constructor, then setup(), which sets ready at
\* once unless a Firefox profile has to be created first.
Construct ==
    /\ robot = "new"
    /\ robot' = ConstructorOutcome(browser)
    /\ IF robot' = "constructed"
       THEN \/ ready' = TRUE /\ setupPending' = FALSE
            \/ /\ browser = "firefox"
               /\ ready' = FALSE /\ setupPending' = TRUE
       ELSE UNCHANGED <<ready, setupPending>>
    /\ UNCHANGED <<browser, driver, created, base, gpc, pending, got, ncalls,
                   ncloses>>

\* p.on('close', ...) of the profile creation: f()
ProfileCreated ==
    /\ setupPending
    /\ setupPending' = FALSE
    /\ ready' = TRUE
    /\ UNCHANGED <<browser, robot, driver, created, base, gpc, pending, got,
                   ncalls, ncloses>>

\* getDriver() up to its first await: return this.driver when it is set, throw
\* for a browser that is not supported, else call createDriver(options).
GetDriverCall(c) ==
    /\ robot = "constructed"
    /\ gpc[c] = "idle"
    /\ ncalls < MaxCalls
    /\ ncalls' = ncalls + 1
    /\ IF driver # 0
       THEN /\ gpc' = [gpc EXCEPT ![c] = "returned"]
            /\ got' = [got EXCEPT ![c] = driver]
            /\ UNCHANGED <<created, pending>>
       ELSE IF browser \notin browsers
       THEN /\ gpc' = [gpc EXCEPT ![c] = "rejected"]
            /\ UNCHANGED <<got, created, pending>>
       ELSE /\ gpc' = [gpc EXCEPT ![c] = "creating"]
            /\ created' = created + 1
            /\ pending' = [pending EXCEPT ![c] = created + 1]
            /\ UNCHANGED got
    /\ UNCHANGED <<browser, robot, ready, setupPending, driver, base, ncloses>>

\* this.driver = await this.createDriver(options)
DriverCreated(c) ==
    /\ gpc[c] = "creating"
    /\ driver' = pending[c]
    /\ gpc' = [gpc EXCEPT ![c] = "script"]
    /\ UNCHANGED <<browser, robot, ready, setupPending, created, base, pending,
                   got, ncalls, ncloses>>

\* await this.driver.sendDevToolsCommand(...); return this.driver
DriverReturned(c) ==
    /\ gpc[c] = "script"
    /\ got' = [got EXCEPT ![c] = driver]
    /\ gpc' = [gpc EXCEPT ![c] = "returned"]
    /\ UNCHANGED <<browser, robot, ready, setupPending, driver, created, base,
                   pending, ncalls, ncloses>>

\* The caller is through with its call and may call again.
CallerDone(c) ==
    /\ gpc[c] \in {"returned", "rejected"}
    /\ ncalls < MaxCalls
    /\ gpc' = [gpc EXCEPT ![c] = "idle"]
    /\ UNCHANGED <<browser, robot, ready, setupPending, driver, created, base,
                   pending, got, ncalls, ncloses>>

\* close(): this.driver.quit(), then delete this.driver
Close ==
    /\ driver # 0
    /\ ncloses < MaxCloses
    /\ \A c \in Callers : gpc[c] \notin {"creating", "script"}
    /\ ncloses' = ncloses + 1
    /\ driver' = 0
    /\ base' = created
    /\ got' = [c \in Callers |-> 0]
    /\ UNCHANGED <<browser, robot, ready, setupPending, created, gpc, pending,
                   ncalls>>

DriverIdle ==
    /\ browser = ""
    /\ robot = "idle"
    /\ ready = FALSE
    /\ setupPending = FALSE
    /\ driver = 0
    /\ created = 0
    /\ base = 0
    /\ gpc = <<>>
    /\ pending = <<>>
    /\ got = <<>>
    /\ ncalls = 0
    /\ ncloses = 0

DriverNext ==
    \/ Construct
    \/ ProfileCreated
    \/ \E c \in Callers : GetDriverCall(c)
    \/ \E c \in Callers : DriverCreated(c)
    \/ \E c \in Callers : DriverReturned(c)
    \/ \E c \in Callers : CallerDone(c)
    \/ Close

\* ---------------------------------------------------------- getFormValues
MaxNames == 2

\* Field names as the caller writes them, as sequences of characters.
FieldNames == { <<"#", "a">>, <<"a">>, <<"b">> }

FieldLists == UNION { [1..n -> FieldNames] : n \in 0..MaxNames }

VARIABLES
    rfields,    \* the caller's list of field names
    useId,      \* useId
    rqueue,     \* q.queues: the names the queue has not handed out yet
    rfield,     \* field, as the worker rewrote it
    risId,      \* isId
    rtype,      \* the type attribute read for the field
    rpc,        \* "call" | "find" | "type" | "value" | "done" | "settled"
    rvalues,    \* values: the object the promise resolves with
    rpromise,   \* "pending" | "resolved" | "rejected"
    rlog        \* history of the lookups: [name, field, by]

readVars == <<rfields, useId, rqueue, rfield, risId, rtype, rpc, rvalues,
              rpromise, rlog>>

ReadInit ==
    /\ rfields \in FieldLists
    /\ useId \in BOOLEAN
    /\ rqueue = <<>>
    /\ rfield = <<>>
    /\ risId = FALSE
    /\ rtype = ""
    /\ rpc = "call"
    /\ rvalues = [k \in {} |-> ""]
    /\ rpromise = "pending"
    /\ rlog = <<>>

\* the name as it was given
FieldKeyRaw(name) == name

\* if (field.substr(0, 1) === '#') field = field.substr(1)
FieldKey(name) == IF name # <<>> /\ Head(name) = "#" THEN Tail(name) ELSE name

\* let isId = useId; if (field.substr(0, 1) === '#') isId = true
FieldIsId(name) == useId \/ (name # <<>> /\ Head(name) = "#")

\* a queue that works on the caller's array
ReadQueueSharesList == FALSE

\* new Queue([...fields], ...): the queue shifts the names off its own array.
ReadQueueCopiesList == TRUE

\* q.next(): hand the next name to the worker, or emit 'done'.
ReadQNext(qs) ==
    /\ rfields' = IF ReadQueueCopiesList THEN rfields ELSE
                     (IF qs # <<>> THEN Tail(qs) ELSE qs)
    /\ IF qs # <<>>
       THEN /\ rqueue' = Tail(qs)
            /\ rfield' = FieldKey(Head(qs))
            /\ risId' = FieldIsId(Head(qs))
            /\ rpc' = "find"
            /\ rlog' = Append(rlog, [name |-> Head(qs),
                                     field |-> FieldKey(Head(qs)),
                                     by |-> IF FieldIsId(Head(qs))
                                            THEN "id" ELSE "name"])
       ELSE /\ rqueue' = qs
            /\ rpc' = "done"
            /\ UNCHANGED <<rfield, risId, rlog>>

\* getFormValues(form, fields, useId): the promise and the queue are made.
ReadCall ==
    /\ rpc = "call"
    /\ ReadQNext(rfields)
    /\ UNCHANGED <<useId, rtype, rvalues, rpromise>>

\* [w => form.findElement(isId ? By.id(field) : By.xpath(...))], and
\* .catch(() => next()) when the lookup fails
ReadFind ==
    /\ rpc = "find"
    /\ \/ /\ rpc' = "type"
          /\ UNCHANGED <<rfields, rqueue, rfield, risId, rlog>>
       \/ ReadQNext(rqueue)
    /\ UNCHANGED <<useId, rtype, rvalues, rpromise>>

\* [w => w.res.getAttribute('type')]
ReadType ==
    /\ rpc = "type"
    /\ \/ /\ rtype' \in {"checkbox", "text"}
          /\ rpc' = "value"
          /\ UNCHANGED <<rfields, rqueue, rfield, risId, rlog>>
       \/ ReadQNext(rqueue) /\ UNCHANGED rtype
    /\ UNCHANGED <<useId, rvalues, rpromise>>

\* [w => w.pres.getAttribute(w.res === 'checkbox' ? 'checked' : 'value')],
\* then values[field] = value; next()
ReadValue ==
    /\ rpc = "value"
    /\ \/ LET v == IF rtype = "checkbox" THEN "checked:true" ELSE "value:x" IN
          /\ rvalues' = [k \in DOMAIN rvalues \cup {rfield} |->
                            IF k = rfield THEN v ELSE rvalues[k]]
          /\ ReadQNext(rqueue)
       \/ ReadQNext(rqueue) /\ UNCHANGED rvalues
    /\ UNCHANGED <<useId, rtype, rpromise>>

\* q.once('done', () => resolve(values))
ReadResolve ==
    /\ rpc = "done"
    /\ rpc' = "settled"
    /\ rpromise' = "resolved"
    /\ UNCHANGED <<rfields, useId, rqueue, rfield, risId, rtype, rvalues, rlog>>

ReadIdle ==
    /\ rfields = <<>>
    /\ useId = FALSE
    /\ rqueue = <<>>
    /\ rfield = <<>>
    /\ risId = FALSE
    /\ rtype = ""
    /\ rpc = "idle"
    /\ rvalues = [k \in {} |-> ""]
    /\ rpromise = "pending"
    /\ rlog = <<>>

ReadNext ==
    \/ ReadCall
    \/ ReadFind
    \/ ReadType
    \/ ReadValue
    \/ ReadResolve

WorksIdle ==
    /\ wsteps = <<>>
    /\ wpos = 0
    /\ wresult = <<>>
    /\ wrres = Undefined
    /\ wstate = "idle"
    /\ werr = NoWorkErr
    /\ wout = Undefined
    /\ wlog = <<>>

FormIdle ==
    /\ values = <<>>
    /\ valuesArray = <<>>
    /\ submit = "none"
    /\ options = [wait |-> 0, prefillCallback |-> FALSE, postfillCallback |-> FALSE]
    /\ fstate = "idle"
    /\ wres = <<>>
    /\ queues = <<>>
    /\ fpc = <<>>
    /\ nextCalled = <<>>
    /\ dataParent = <<>>
    /\ dataEl = <<>>
    /\ fieldErr = <<>>
    /\ pres = <<>>
    /\ prres = Null
    /\ formPromise = "idle"
    /\ formResult = Null
    /\ formError = NoErr
    /\ log = <<>>

vars ==
    <<formVars, worksVars, fillVars, textVars, selectVars,
      classifyVars, loggerVars, truncVars, driverVars,
      readVars>>

Init ==
    /\ FormInit /\ WorksIdle /\ FillIdle /\ TextIdle /\ SelectIdle
    /\ ClassifyIdle /\ LoggerIdle /\ TruncIdle /\ DriverIdle
    /\ ReadIdle

Spec ==
    /\ Init
    /\ [][ /\ FormNext
           /\ UNCHANGED <<worksVars, fillVars, textVars, selectVars,
                         classifyVars, loggerVars, truncVars, driverVars,
                         readVars>> ]_vars

InitWorks ==
    /\ WorksInit /\ FormIdle /\ FillIdle /\ TextIdle /\ SelectIdle
    /\ ClassifyIdle /\ LoggerIdle /\ TruncIdle /\ DriverIdle
    /\ ReadIdle

WorksNext ==
    /\ WorksStep \/ WorksFinish
    /\ UNCHANGED <<formVars, fillVars, textVars, selectVars, classifyVars,
                  loggerVars, truncVars, driverVars, readVars>>

SpecWorks == InitWorks /\ [][WorksNext]_vars

InitFill ==
    /\ FillInit /\ FormIdle /\ WorksIdle /\ TextIdle /\ SelectIdle
    /\ ClassifyIdle /\ LoggerIdle /\ TruncIdle /\ DriverIdle
    /\ ReadIdle

SpecFill ==
    /\ InitFill
    /\ [][ /\ FillNext
           /\ UNCHANGED <<formVars, worksVars, textVars, selectVars,
                         classifyVars, loggerVars, truncVars, driverVars,
                         readVars>> ]_vars

InitText ==
    /\ TextInit /\ FormIdle /\ WorksIdle /\ FillIdle /\ SelectIdle
    /\ ClassifyIdle /\ LoggerIdle /\ TruncIdle /\ DriverIdle
    /\ ReadIdle

SpecText ==
    /\ InitText
    /\ [][ /\ TextNext
           /\ UNCHANGED <<formVars, worksVars, fillVars, selectVars,
                         classifyVars, loggerVars, truncVars, driverVars,
                         readVars>> ]_vars

InitSelect ==
    /\ SelectInit /\ FormIdle /\ WorksIdle /\ FillIdle /\ TextIdle
    /\ ClassifyIdle /\ LoggerIdle /\ TruncIdle /\ DriverIdle
    /\ ReadIdle

SpecSelect ==
    /\ InitSelect
    /\ [][ /\ SelectNext
           /\ UNCHANGED <<formVars, worksVars, fillVars, textVars, classifyVars,
                         loggerVars, truncVars, driverVars, readVars>> ]_vars

InitClassify ==
    /\ ClassifyInit /\ FormIdle /\ WorksIdle /\ FillIdle
    /\ TextIdle /\ SelectIdle /\ LoggerIdle /\ TruncIdle
    /\ DriverIdle /\ ReadIdle

SpecClassify ==
    /\ InitClassify
    /\ [][ /\ ClassifyNext
           /\ UNCHANGED <<formVars, worksVars, fillVars, textVars, selectVars,
                         loggerVars, truncVars, driverVars, readVars>> ]_vars

InitLogger ==
    /\ LoggerInit /\ FormIdle /\ WorksIdle /\ FillIdle /\ TextIdle
    /\ SelectIdle /\ ClassifyIdle /\ TruncIdle /\ DriverIdle
    /\ ReadIdle

SpecLogger ==
    /\ InitLogger
    /\ [][ /\ LoggerNext
           /\ UNCHANGED <<formVars, worksVars, fillVars, textVars, selectVars,
                         classifyVars, truncVars, driverVars, readVars>> ]_vars

InitTruncate ==
    /\ TruncInit /\ FormIdle /\ WorksIdle /\ FillIdle /\ TextIdle
    /\ SelectIdle /\ ClassifyIdle /\ LoggerIdle /\ DriverIdle
    /\ ReadIdle

SpecTruncate ==
    /\ InitTruncate
    /\ [][ /\ TruncNext
           /\ UNCHANGED <<formVars, worksVars, fillVars, textVars, selectVars,
                         classifyVars, loggerVars, driverVars, readVars>> ]_vars

InitDriver ==
    /\ DriverInit /\ FormIdle /\ WorksIdle /\ FillIdle /\ TextIdle
    /\ SelectIdle /\ ClassifyIdle /\ LoggerIdle /\ TruncIdle
    /\ ReadIdle

SpecDriver ==
    /\ InitDriver
    /\ [][ /\ DriverNext
           /\ UNCHANGED <<formVars, worksVars, fillVars, textVars, selectVars,
                         classifyVars, loggerVars, truncVars, readVars>> ]_vars

InitRead ==
    /\ ReadInit /\ FormIdle /\ WorksIdle /\ FillIdle /\ TextIdle
    /\ SelectIdle /\ ClassifyIdle /\ LoggerIdle /\ TruncIdle
    /\ DriverIdle

SpecRead ==
    /\ InitRead
    /\ [][ /\ ReadNext
           /\ UNCHANGED <<formVars, worksVars, fillVars, textVars, selectVars,
                         classifyVars, loggerVars, truncVars, driverVars>> ]_vars

\* The shrink loop is synchronous code: it keeps running.
SpecTruncateFair ==
    /\ SpecTruncate
    /\ WF_vars(TruncNext /\ UNCHANGED <<formVars, worksVars, fillVars, textVars, selectVars,
                                    classifyVars, loggerVars, driverVars, readVars>>)

\* ---------------------------------------------------------------- claims
\* Workers that were handed their item and have not settled.
InFlight == { k \in Fields : fpc[k] \notin {"idle", "completed", "rejected"} }

FieldEvents == { p \in DOMAIN log : log[p].f > 0 }

\* C1: the workers of fillInForm run one at a time and in the order of the
\* list: at most one worker is in flight, a worker of field j has started only
\* if every field before it has completed (its done hook included), and every
\* driver interaction or hook of field j comes after the q.next() of each
\* field before it.
C1_OneWorkerInDeclaredOrder ==
    /\ Cardinality(InFlight) <= 1
    /\ \A i, j \in Fields :
          i < j /\ fpc[j] # "idle" => fpc[i] = "completed"
    /\ \A q \in FieldEvents : \A i \in 1..(log[q].f - 1) :
          \E r \in 1..(q - 1) :
             /\ log[r] = Ev(i, "next")
             /\ \A p \in 1..r : log[p].f <= i

C1_Witness ==
    /\ Len(values) >= 2
    /\ values[1].done
    /\ fpc[1] = "completed"
    /\ fpc[2] = "w2"

\* C2: when the worker of field k rejects, no worker of a later field is or
\* was invoked, and the promise of fillInForm is rejected with the error of
\* field k.
C2_RejectionEndsQueue ==
    \A k \in Fields :
        fpc[k] = "rejected" =>
            /\ \A j \in Fields : j > k => fpc[j] = "idle"
            /\ \A p \in DOMAIN log : log[p].f <= k
            /\ formPromise = "rejected"
            /\ formError = fieldErr[k]

C2_Witness ==
    /\ Len(values) >= 2
    /\ fpc[1] = "rejected"
    /\ fieldErr[1].wrapped
    /\ formPromise = "rejected"

FieldFailed == \E k \in Fields : fpc[k] \in {"snap", "catch", "rejected", "lost"}

\* C3: whenever the pipeline of a field fails, the promise of fillInForm is
\* rejected once every pending step has run: it is never resolved and never
\* left pending.
C3_FailedFieldRejectsForm ==
    FieldFailed =>
        /\ formPromise # "resolved"
        /\ ~(ENABLED FormNext) => formPromise = "rejected"

\* C6: after all fields completed, the post-fill callback (if given) runs
\* first; with a submit target exactly one of 'invoke the function' and 'click
\* the locator' happens, right after the sleep when wait > 0; without one
\* nothing is clicked and the promise resolves with the form element.
PostLog == SelectSeq(log, LAMBDA e : e.f = 0 /\ e.ev # "prefill")

Count(seq, e) == Cardinality({ p \in DOMAIN seq : seq[p].ev = e })

SubmitEvent == IF submit = "function" THEN "submitFn" ELSE "clickSubmit"

C6_AfterAllFields ==
    formPromise = "resolved" =>
        /\ \A k \in Fields : fpc[k] = "completed"
        /\ \A p \in DOMAIN log : log[p].f = 0 /\ log[p].ev # "prefill" =>
              \A q \in FieldEvents : q < p
        /\ options.postfillCallback =>
              PostLog # <<>> /\ PostLog[1].ev = "postfill"
        /\ Count(PostLog, "postfill") <= 1
        /\ submit # "none" =>
              /\ Count(PostLog, "submitFn") + Count(PostLog, "clickSubmit") = 1
              /\ Count(PostLog, SubmitEvent) = 1
              /\ options.wait > 0 =>
                    \E p \in DOMAIN PostLog :
                       /\ PostLog[p].ev = "sleep"
                       /\ p < Len(PostLog)
                       /\ PostLog[p + 1].ev = SubmitEvent
              /\ formResult = IF submit = "function" THEN "submitResult"
                                                      ELSE "submitElement"
        /\ submit = "none" =>
              /\ Count(PostLog, "submitFn") + Count(PostLog, "clickSubmit") = 0
              /\ formResult = getRes(wres, 0)
              /\ formResult = "element"

C6_Witness ==
    /\ formPromise = "resolved"
    /\ Len(values) >= 2
    /\ options.postfillCallback
    /\ options.wait > 0
    /\ submit = "function"

\* C4: when the action of step i throws or rejects, no guard and no action of
\* a later step is evaluated and the promise of the run is rejected with that
\* same error.
C4_FailureHaltsRun ==
    \A p \in DOMAIN wlog :
        LET e == wlog[p] IN
        e.ran /\ wsteps[e.step + 1].act \in {"reject", "throw"} =>
            /\ p = Len(wlog)
            /\ wpos = e.step + 1
            /\ wstate = "rejected"
            /\ wout = [step |-> e.step, how |-> wsteps[e.step + 1].act]
            /\ wout = werr
            /\ ~(ENABLED WorksNext)

C4_Witness ==
    /\ wstate = "rejected"
    /\ werr.how = "throw"
    /\ werr.step = 1
    /\ Len(wsteps) = 3
    /\ wsteps[3].guard = "none"

\* What step j left in the register: its value if its action ran, the skip
\* marker if its guard was false.
Written(j) == IF wlog[j + 1].ran THEN wsteps[j + 1].act ELSE Null

\* C5: steps are processed in declaration order; the guard of step i is
\* evaluated after steps 0..i-1 were written or skipped and sees exactly their
\* results at their absolute positions, and an entry of the register never
\* changes once written.
C5_GuardSeesPriorResults ==
    /\ \A p \in DOMAIN wlog :
          LET e == wlog[p] IN
          /\ e.step = p - 1
          /\ Len(e.view) = e.step
          /\ \A j \in 0..(e.step - 1) :
                /\ getRes(e.view, j) = Written(j)
                /\ getRes(wresult, j) = getRes(e.view, j)
    /\ wstate = "running" => Len(wresult) = wpos

C5_Witness ==
    /\ Len(wlog) = 3
    /\ ~wlog[2].ran
    /\ wsteps[3].guard = "prev"
    /\ wlog[3].ran = FALSE
    /\ wlog[3].view = <<"a", Null>>

\* ---------------------------------------------------------- fillFormValue
KindOf(e) == getInputType(e.tag, e.type)

EffectiveValue == IF data.converter THEN Converted(data.value) ELSE data.value

ElementEvents == SelectSeq(flog, LAMBDA e : e.el # 0)

Clicks(e) ==
    Cardinality({ p \in DOMAIN flog : flog[p].el = e /\ flog[p].ev = "click" })

\* C7: when the target matches no element and the field is not optional,
\* fillFormValue rejects with the element-not-found error, and it has called
\* neither the converter, nor a hook, nor anything on an element.
C7_NotFoundRejectsUntouched ==
    (Len(dom0) = 0 /\ ~data.optional) =>
        /\ flog = <<>>
        /\ fillState \in {"find", "notfound", "rejected"}
        /\ fillState = "rejected" => fillErr = "ElementNotFound"
        /\ Len(fillRes) <= 1

C7_Witness ==
    /\ Len(dom0) = 0
    /\ ~data.optional
    /\ data.converter
    /\ data.hooks = HookNames
    /\ fillState = "rejected"
    /\ fillErr = "ElementNotFound"

RadioGroup == Len(dom0) > 1 /\ \A i \in DOMAIN dom0 : KindOf(dom0[i]) = RADIO

Matching == { i \in DOMAIN dom0 : dom0[i].value = EffectiveValue }

BuiltinFill == data.hooks \cap {"canfill", "onfill"} = {}

\* C9: in a group of n > 1 radio buttons of which exactly one has the effective
\* value as its value attribute, no other button is ever clicked and
\* MultipleElementsFound is never raised; when no canfill or onfill hook
\* replaces the built-in fill and the field completes, the matching button has
\* been clicked exactly once.
C9_RadioClicksTheMatch ==
    (RadioGroup /\ Cardinality(Matching) = 1) =>
        /\ fillErr # "MultipleElementsFound"
        /\ \A i \in DOMAIN dom0 : i \notin Matching => Clicks(i) = 0
        /\ (fillState = "resolved" /\ BuiltinFill) =>
               \A i \in Matching : Clicks(i) = 1 /\ dom[i].checked

C9_Witness ==
    /\ RadioGroup
    /\ Matching = {Len(dom0)}
    /\ BuiltinFill
    /\ fillState = "resolved"
    /\ Clicks(Len(dom0)) = 1

\* C10: once fillCheckbox has run on a checkbox with a desired boolean b, the
\* checkbox has been clicked if and only if b differs from the checked state c
\* it had before.
C10_ClicksIffDiffers ==
    \A e \in DOMAIN dom0 :
        ( /\ KindOf(dom0[e]) = CHECKBOX
          /\ value \in {JsTrue, JsFalse}
          /\ fillState = "element" /\ el = e /\ xpos > 7
          /\ Truthy(getRes(xres, 4)) )
        => (Clicks(e) = 1 <=> JsBool(dom0[e].checked) # value)

EventsOf(e) == SelectSeq(flog, LAMBDA x : x.el = e)

Has(e, name) == \E p \in DOMAIN flog : flog[p].el = e /\ flog[p].ev = name

Strategies == {"fillSelect", "fillRadio", "fillCheckbox", "fillTextarea",
               "fillInput"}

StrategyOf(kind) ==
    CASE kind = SELECT   -> "fillSelect"
      [] kind = RADIO    -> "fillRadio"
      [] kind = CHECKBOX -> "fillCheckbox"
      [] kind = TEXTAREA -> "fillTextarea"
      [] OTHER           -> "fillInput"

StrategiesRun(e) == { n \in Strategies : Has(e, n) }

\* The element has gone through the custom fill step and the five strategy
\* steps of its pipeline.
Filled(e) ==
    \/ fillState = "resolved"
    \/ fillState \in {"element", "rejected"} /\ (e < el \/ (e = el /\ xpos >= 10))

\* C11: each element is filled by exactly one of three paths.  prefill, when
\* present, is called first; when canfill resolved truthy neither onfill nor a
\* built-in strategy runs; otherwise onfill, when present, runs and no built-in
\* strategy does; otherwise exactly the built-in strategy of the element's
\* kind runs.
C11_OneFillPath ==
    \A e \in DOMAIN dom0 :
        /\ (Has(e, "prefill") \/ Has(e, "canfill") \/ Has(e, "onfill")
                \/ StrategiesRun(e) # {}) =>
               ("prefill" \in data.hooks => EventsOf(e)[1].ev = "prefill")
        /\ Has(e, "canfill=>true") => ~Has(e, "onfill") /\ StrategiesRun(e) = {}
        /\ Has(e, "onfill") => StrategiesRun(e) = {}
        /\ StrategiesRun(e) \subseteq {StrategyOf(KindOf(dom0[e]))}
        /\ Filled(e) =>
               IF Has(e, "canfill=>true") THEN TRUE
               ELSE IF "onfill" \in data.hooks THEN Has(e, "onfill")
               ELSE StrategiesRun(e) = {StrategyOf(KindOf(dom0[e]))}

C11_Witness ==
    /\ data.hooks = HookNames
    /\ fillState = "element"
    /\ xpos >= 10
    /\ Has(el, "canfill=>false")
    /\ Has(el, "onfill")
    /\ EventsOf(el)[1].ev = "prefill"

RequiredRaised(e) ==
    fillState = "rejected" /\ fillErr = "RequiredFieldEmpty" /\ el = e

\* C12: once the validation steps of an element have run, RequiredFieldEmpty
\* has been raised if and only if the element is not a checkbox, was not
\* detected stale, has the required attribute and an empty value; for a
\* checkbox and for an element detected stale the two attributes are not read.
C12_RequiredRaisedIff ==
    /\ fillErr = "RequiredFieldEmpty" => fillState = "rejected" /\ xpos = 14
    /\ (fillState \in {"element", "rejected"} /\ xpos >= 14) =>
          /\ RequiredRaised(el) <=>
                 /\ KindOf(dom0[el]) # CHECKBOX
                 /\ getRes(xres, 10) = JsFalse
                 /\ dom[el].required
                 /\ dom[el].value = ""
          /\ (KindOf(dom0[el]) = CHECKBOX \/ getRes(xres, 10) = JsTrue) =>
                 ~Has(el, "readRequired") /\ ~Has(el, "readValue")

C12_Witness ==
    /\ RequiredRaised(el)
    /\ KindOf(dom0[el]) = OTHER_KIND
    /\ Has(el, "fillInput")
    /\ Has(el, "readValue")

\* ------------------------------------------- fillTextarea, fillSlashSafe
ReadBack == getRes(tres, 4)

\* C13: for a value that is not null, fillTextarea reads the value of the
\* element back after everything was typed, and it succeeds if and only if
\* what it read is the value; otherwise it rejects with the mismatch error.
C13_SucceedsIffReadBackEqual ==
    /\ terr = "FillValueMismatch" =>
           tstate = "rejected" /\ ~tvalue.null /\ ReadBack # tvalue.str
    /\ (~tvalue.null /\ tpos >= TextSteps) =>
           /\ tlog[Len(tlog)] = TEv("read", ReadBack)
           /\ tstate # "rejected" <=> ReadBack = tvalue.str
           /\ tstate = "rejected" => terr = "FillValueMismatch"
    /\ (~tvalue.null /\ tstate = "resolved") => ReadBack = tvalue.str

C13_Witness ==
    /\ tstate = "rejected"
    /\ terr = "FillValueMismatch"
    /\ tvalue.str = <<"a", "/", "b">>
    /\ ReadBack = <<"a", "b">>

RECURSIVE Sent(_)
\* What the key-sends and the script injections have put into the element,
\* in the order of the calls.
Sent(l) ==
    IF l = <<>> THEN <<>>
    ELSE (IF Head(l).op \in {"sendKeys", "script"} THEN Head(l).text ELSE <<>>)
         \o Sent(Tail(l))

Occurrences(str, ch) == Cardinality({ i \in DOMAIN str : str[i] = ch })

Injections == Cardinality({ p \in DOMAIN tlog : tlog[p].op = "script" })

\* C14: for a value containing '/', in slash-safe mode, no '/' is sent as a
\* key, every typed segment is non-empty, the segments and the injected
\* slashes follow the value from left to right, and when the fill is through
\* they make up the value, with one injection for each '/' of it.
C14_SlashSafeSpellsValue ==
    (safeTextArea /\ ~tvalue.null /\ indexOf(tvalue.str, "/") >= 0) =>
        /\ \A p \in DOMAIN tlog :
               tlog[p].op = "sendKeys" =>
                   /\ tlog[p].text # <<>>
                   /\ \A i \in DOMAIN tlog[p].text : tlog[p].text[i] # "/"
        /\ looping => Sent(tlog) \o rest = tvalue.str
        /\ (tstate = "running" /\ ~looping /\ tpos <= 3) => Sent(tlog) = <<>>
        /\ (tpos >= 4 /\ terr # "DriverError") =>
               /\ Sent(tlog) = tvalue.str
               /\ Injections = Occurrences(tvalue.str, "/")

C14_Witness ==
    /\ safeTextArea
    /\ eatsSlash
    /\ tvalue.str = <<"/", "a", "/">>
    /\ Injections = 2
    /\ tstate = "resolved"

\* ------------------------------------------------------------ fillSelect
OptionsOfSelect == { x \in (DOMAIN page) \X (1..MaxOptions) :
                         /\ x[1] = sel
                         /\ x[2] \in DOMAIN page[sel]
                         /\ page[sel][x[2]] = sval }

\* C15: fillSelect clicks exactly one option, an option of the matched select
\* whose value attribute is the value, and no option of another select; when
\* the matched select has no such option the fill fails.
C15_ClicksOptionOfTheSelect ==
    /\ \A p \in DOMAIN clicked : clicked[p] \in OptionsOfSelect
    /\ sstate = "resolved" => Len(clicked) = 1
    /\ (OptionsOfSelect = {} /\ spos > 0) => sstate = "rejected"

\* ---------------------------------------------------------- getInputType
\* C16: getInputType is a function of the tag name and the type attribute
\* alone: SELECT for a select and TEXTAREA for a textarea whatever the type,
\* CHECKBOX and RADIO for an input of these types, and OTHER for every other
\* pair; it changes nothing.
C16_Classification ==
    ckind \notin {Undefined, "idle"} =>
        /\ ctag = "select" => ckind = SELECT
        /\ ctag = "textarea" => ckind = TEXTAREA
        /\ (ctag = "input" /\ ctype = "checkbox") => ckind = CHECKBOX
        /\ (ctag = "input" /\ ctype = "radio") => ckind = RADIO
        /\ ( /\ ctag \notin {"select", "textarea"}
             /\ ~(ctag = "input" /\ ctype \in {"checkbox", "radio"}) ) =>
               ckind = OTHER_KIND

C16_Witness ==
    /\ ctag = "div"
    /\ ctype = "checkbox"
    /\ ckind = OTHER_KIND

\* ------------------------------------------------- the caller's FieldSpec
WrittenProps(k) ==
    (IF dataParent[k] # values[k].parent THEN {"parent"} ELSE {})
    \cup (IF dataHandler(k) THEN {"handler"} ELSE {})
    \cup (IF dataEl[k] # "unset" THEN {"el"} ELSE {})

\* C17: the only property of a field specification fillInForm and
\* fillFormValue ever write is el: parent keeps the value the caller gave and
\* no property is added.
C17_OnlyElWritten == \A k \in Fields : WrittenProps(k) \subseteq {"el"}

\* -------------------------------------------------------- WorkErrorLogger
Reported(p) == out[p].err.isError /\ ~out[p].err.expected

\* The earlier reports of the same error to the same logger.
EarlierSameLogger(p) ==
    { q \in 1..(p - 1) : out[q].logger = out[p].logger /\ out[q].err = out[p].err }

\* C18: through one logger, an Error instance is dumped in full at most once,
\* and then at its first report; every later report of it prints one summary
\* line: the first line of the step's description without trailing blanks,
\* followed by ' ...' exactly when the description has more lines.
C18_DumpOnceThenSummary ==
    \A p \in DOMAIN out :
        /\ out[p].form = "dump" =>
               Reported(p) /\ EarlierSameLogger(p) = {} /\ ~out[p].err.cause
        /\ (Reported(p) /\ EarlierSameLogger(p) # {}) =>
               /\ out[p].form = "summary"
               /\ Len(out[p].text) = 1
               /\ LET first == out[p].info[1]
                      line == out[p].text[1]
                      n == Len(line)
                      more == Len(out[p].info) > 1
                  IN /\ more => /\ n >= 4
                                /\ SubSeq(line, n - 3, n) = <<" ", ".", ".", ".">>
                                /\ SubSeq(line, 1, n - 4) = trimEnd(first)
                     /\ ~more => line = trimEnd(first)

C18_Witness ==
    /\ Len(out) = 3
    /\ out[1].form = "dump" /\ out[1].err.id = "e1"
    /\ out[2].form = "dump" /\ out[2].err.id = "e2"
    /\ out[3].form = "summary" /\ out[3].err.id = "e1"
    /\ Len(out[3].info) > 1

\* The earlier reports of the same error by the same robot.
EarlierSameRobot(p) ==
    { q \in 1..(p - 1) : out[q].robot = out[p].robot /\ out[q].err = out[p].err }

\* C19: what a robot's logger prints for an error does not depend on what
\* another robot reported: the first report of an Error instance (without a
\* cause) by a robot is a full dump, whatever the other robot did before.
C19_SessionsDoNotShareDedup ==
    \A p \in DOMAIN out :
        (Reported(p) /\ ~out[p].err.cause /\ EarlierSameRobot(p) = {}) =>
            out[p].form = "dump"

\* ---------------------------------------------------------------- truncate
\* C20: truncate terminates, whatever the fragment and the limit.
C20_TruncateTerminates == <>(hstate = "done")

\* C21: an input whose length is at most maxlen, and an argument that is not
\* a string, is returned as it is: the call goes straight to its return, the
\* tree is not touched, no marker is added, and nothing happens afterwards.
C21_ShortOrNonStringUnchanged ==
    [][ /\ (hstate = "call" /\ (~isString \/ OuterLen <= maxlen))
           => /\ hstate' = "done"
              /\ alive' = alive /\ attrs' = attrs /\ node' = node
              /\ marker' = "none"
        /\ hstate = "done" => UNCHANGED truncVars ]_vars

C21_Witness ==
    /\ hstate = "done" /\ isString /\ alive # {}
    /\ OuterLen = maxlen
    /\ marker = "none"

\* C22: when the call returns for an input longer than maxlen, the tree at
\* the end of the shrink loop is at most maxlen long, the marker is added once
\* to a node of that tree, and no iteration of the loop makes the tree longer.
C22_ShrunkWithinBound ==
    /\ [](hstate = "done" /\ marker # "none"
            => /\ OuterLen <= maxlen
               /\ node \in alive \cup {0}
               /\ IsElement(node))
    /\ [][ hstate = "loop"
             => /\ OuterLen' <= OuterLen
                /\ marker = "none" ]_vars

C22_Witness ==
    /\ hstate = "done" /\ marker = "attr"
    /\ alive # {} /\ alive # DOMAIN parent
    /\ OuterLen <= maxlen

\* The probe of the element has run and the pipeline has not failed in it.
Probed(e) ==
    \/ fillState = "resolved"
    \/ fillState = "element" /\ (e < el \/ (e = el /\ xpos >= 11))
    \/ fillState = "rejected" /\ (e < el \/ (e = el /\ xpos >= 12))

\* The whole pipeline of the element has run without failing.
Passed(e) ==
    \/ fillState = "resolved"
    \/ fillState \in {"element", "rejected"} /\ e < el
    \/ fillState = "element" /\ e = el /\ xpos = ElementSteps

\* C23: the probe fails the field only for an error of isEnabled that is not
\* a stale reference error, and then with that error.  For a stale reference
\* error it yields true: the required attribute and the value are not read,
\* RequiredFieldEmpty is not raised, afterfill (when present) is still called
\* and the element passes unless afterfill fails.  When isEnabled succeeds it
\* yields false.
C23_StaleProbe ==
    /\ \A e \in DOMAIN dom0 :
          /\ Has(e, "otherError") =>
                fillState = "rejected" /\ fillErr = "DriverError" /\ el = e
                    /\ xpos = 11
          /\ (Has(e, "enabled") \/ Has(e, "staleError")) => Probed(e)
          /\ Has(e, "staleError") =>
                /\ ~Has(e, "readRequired") /\ ~Has(e, "readValue")
                /\ ~RequiredRaised(e)
                /\ (fillState = "rejected" /\ el = e) =>
                       fillErr = "HookError" /\ Has(e, "afterfill")
                /\ Passed(e) => ("afterfill" \in data.hooks <=> Has(e, "afterfill"))
    /\ (fillState = "element" /\ xpos >= 11) =>
          /\ Has(el, "staleError") <=> getRes(xres, 10) = JsTrue
          /\ Has(el, "enabled") <=> getRes(xres, 10) = JsFalse

C23_Witness ==
    /\ fillState = "resolved"
    /\ "afterfill" \in data.hooks
    /\ \E e \in DOMAIN dom0 :
          /\ Has(e, "staleError") /\ Has(e, "afterfill")
          /\ dom0[e].required /\ dom[e].value = ""
          /\ KindOf(dom0[e]) # CHECKBOX

\* C24: once a field of the call has failed, the pipeline that runs on the
\* 'done' event of the queue never starts: the post-fill callback is not
\* invoked, the submit function is not invoked and the submit locator is not
\* clicked.
C24_FailureSkipsPostAndSubmit ==
    FieldFailed =>
        /\ fstate = "queue"
        /\ pres = <<>>
        /\ PostLog = <<>>
        /\ \A p \in DOMAIN log :
              log[p].ev \notin {"postfill", "submitFn", "clickSubmit"}

C24_Witness ==
    /\ Len(values) >= 2
    /\ fpc[1] = "completed"
    /\ fpc[2] = "rejected"
    /\ options.postfillCallback
    /\ submit = "locator"
    /\ ~(ENABLED FormNext)

DoneCalled(k) == \E p \in DOMAIN log : log[p] = Ev(k, "done")

\* C25: the done hook of a field is invoked only once the pipeline of the
\* field has resolved, so never for a failed field, and only when the field
\* has one; while the continuation it was given has not been invoked, no
\* later field has started, the 'done' pipeline has not started and the
\* promise of fillInForm is not resolved.
C25_DoneHookGatesQueue ==
    \A k \in Fields :
        /\ DoneCalled(k) =>
              /\ values[k].done
              /\ fpc[k] \in {"done", "completed"}
              /\ fieldErr[k] = NoErr
              /\ \E p, q \in DOMAIN log :
                    p < q /\ log[p] = Ev(k, "fill") /\ log[q] = Ev(k, "done")
        /\ (values[k].done /\ fpc[k] = "completed") => DoneCalled(k)
        /\ fpc[k] = "done" =>
              /\ \A j \in Fields : j > k => fpc[j] = "idle"
              /\ Len(queues) = Len(values) - k
              /\ fstate = "queue"
              /\ PostLog = <<>>
              /\ formPromise = "pending"

C25_Witness ==
    /\ Len(values) >= 2
    /\ values[1].done
    /\ fpc[1] = "done"
    /\ fpc[2] = "idle"
    /\ options.postfillCallback

HookThrew(k) == \E p \in DOMAIN log : log[p] = Ev(k, "hookThrows")

\* C26: when a hook of a field throws synchronously, the exception becomes
\* the rejection of the field: nothing else of the call runs for the field,
\* and once every pending step has run the promise of fillInForm is rejected
\* with the error of the field, never resolved and never left pending.
C26_HookThrowRejects ==
    \A k \in Fields :
        HookThrew(k) =>
            /\ fieldErr[k].kind = "Error"
            /\ fpc[k] \in {"snap", "catch", "rejected", "lost"}
            /\ formPromise # "resolved"
            /\ ~(ENABLED FormNext) =>
                   /\ formPromise = "rejected"
                   /\ formError = fieldErr[k]
                   /\ formError.wrapped

\* C27: an Error that carries a cause is never dumped in full and never
\* enters the errors list of a logger: each report of it prints the one-line
\* summary; a full dump is printed only for an Error without a cause, at its
\* first report to the logger.
C27_CauseNeverDumped ==
    /\ \A p \in DOMAIN out :
          /\ (Reported(p) /\ out[p].err.cause) =>
                out[p].form = "summary" /\ Len(out[p].text) = 1
          /\ out[p].form = "dump" =>
                ~out[p].err.cause /\ EarlierSameLogger(p) = {}
    /\ \A n \in DOMAIN loggers : \A i \in DOMAIN loggers[n] :
          ~loggers[n][i].cause

C27_Witness ==
    /\ Len(out) = 3
    /\ out[1].err.id = "ec" /\ out[1].form = "summary"
    /\ out[2].err.id = "e1" /\ out[2].form = "dump"
    /\ out[3].err.id = "ec" /\ out[3].form = "summary"
    /\ out[1].logger = out[3].logger /\ out[2].logger = out[3].logger

\* What is not of an expected error class: Error instances and the strings
\* fillFormValue and fillTextarea reject with.
Failure(p) == ~out[p].err.expected

\* C28: every failure is logged once in full: the first report of a failure
\* to a logger (the level at which it was raised, so without a cause) prints
\* the full dump, and each further report of it prints one summary line.
C28_EveryFailureDumpedOnce ==
    \A p \in DOMAIN out :
        Failure(p) =>
            /\ (~out[p].err.cause /\ EarlierSameLogger(p) = {}) =>
                   out[p].form = "dump"
            /\ EarlierSameLogger(p) # {} => out[p].form = "summary"

\* C29: in the slash-safe fill every '/' is added by a script that assigns
\* the value of the element, and each such injection is followed at once by
\* the dispatch of a change event on the element, before the next segment is
\* typed.
C29_SlashInjectionDispatchesChange ==
    \A p \in DOMAIN tlog :
        tlog[p].op = "script" =>
            /\ tlog[p].text = <<"/">>
            /\ p < Len(tlog)
            /\ tlog[p + 1] = TEv("dispatch", <<"change">>)

AllRadio == Len(dom0) >= 1 /\ \A i \in DOMAIN dom0 : KindOf(dom0[i]) = RADIO

\* No button of the group has the effective value as its value attribute
\* (compared as fillRadio compares, with ==).
NoneMatches == \A i \in DOMAIN dom0 : ~LooseEq(dom0[i].value, EffectiveValue)

\* C30: in a radio group none of whose buttons has the effective value, no
\* element is clicked and no error is raised for the missing match: the field
\* resolves unless a hook or the driver fails.
C30_NoMatchingRadioIsSilent ==
    (AllRadio /\ NoneMatches) =>
        /\ \A i \in DOMAIN dom0 : Clicks(i) = 0 /\ dom[i].checked = dom0[i].checked
        /\ fillState = "rejected" => fillErr \in {"HookError", "DriverError"}
        /\ (fillState = "rejected" /\ fillErr = "DriverError") =>
               Has(el, "otherError")
        /\ (fillState = "rejected" /\ fillErr = "HookError") =>
               data.hooks # {}
        /\ ~(ENABLED FillNext) => fillState \in {"resolved", "rejected"}

C30_Witness ==
    /\ AllRadio /\ NoneMatches
    /\ Len(dom0) = 2
    /\ BuiltinFill
    /\ fillState = "resolved"
    /\ Has(1, "fillRadio") /\ Has(2, "fillRadio")
    /\ Clicks(1) = 0 /\ Clicks(2) = 0

RECURSIVE AttrCount(_)
AttrCount(S) ==
    IF S = {} THEN 0
    ELSE LET c == CHOOSE x \in S : TRUE IN Len(attrs[c]) + AttrCount(S \ {c})

\* The nodes of the parsed tree plus the attributes of its elements.
TreeCount == Cardinality(alive) + AttrCount(alive)

\* C31: every iteration of the shrink loop strictly reduces the number of
\* nodes plus attributes of the tree.
C31_EveryIterationShrinks ==
    [][ Looping => TreeCount' < TreeCount ]_vars

\* C32 as stated: the attribute removed from the childless top-level element
\* is the first of its attributes, one for each iteration.
C32_RemovesFirstAttribute ==
    [][ attrs' # attrs => attrs'[node] = Tail(attrs[node]) ]_vars

\* C32 as amended: an iteration that removes an attribute is one whose cursor
\* is a childless top-level element while the fragment is too long; it
\* removes one attribute, the last of the element's attributes, and leaves
\* the nodes and every other element as they are.
C32_RemovesLastAttribute ==
    [][ attrs' # attrs =>
          /\ Looping /\ TopLevelLeaf
          /\ attrs[node] # <<>>
          /\ attrs'[node] = SubSeq(attrs[node], 1, Len(attrs[node]) - 1)
          /\ \A n \in DOMAIN attrs : n # node => attrs'[n] = attrs[n]
          /\ alive' = alive /\ node' = node ]_vars

C32_Witness ==
    /\ hstate = "loop" /\ attr
    /\ TopLevelLeaf
    /\ attrs[node] = <<"p">>

\* Whether a child node was removed from the tree.
ContentRemoved == alive # DOMAIN parent

\* C33: a shortened fragment gets one marker: the '...' text node when any
\* child node was removed, the '...' attribute only when attributes and no
\* child node were removed.
C33_MarkerFollowsWhatWasRemoved ==
    (hstate = "done" /\ marker # "none") =>
        /\ ContentRemoved => marker = "text"
        /\ marker = "attr" => attr /\ ~ContentRemoved

\* ------------------------------------------------- constructor, getDriver
\* C34: a WebRobot configured with a browser that is not supported fails at
\* construction: no such object is constructed, becomes ready, or starts a
\* pipeline.
C34_UnsupportedBrowserFailsAtConstruction ==
    browser \notin browsers =>
        /\ robot \in {"new", "threw"}
        /\ ~ready
        /\ ncalls = 0

\* C36: between construction (or the last close) and the next close,
\* createDriver is invoked at most once and every caller of getDriver gets
\* the same handle, however the calls interleave.
C36_OneDriverForAllCallers ==
    /\ created - base <= 1
    /\ \A c, d \in Callers : (got[c] # 0 /\ got[d] # 0) => got[c] = got[d]

C38_OptionalWithoutMatchResolves ==
    (data.optional /\ Len(dom0) = 0) =>
        /\ fillState \in {"find", "notfound", "convert", "queue", "resolved"}
        /\ fillErr = "null"
        /\ ElementEvents = <<>>
        /\ \A p \in DOMAIN flog : flog[p].ev = "converter"
        /\ dom = dom0
        /\ dataElRef = 0
        /\ ~(ENABLED FillNext) => fillState = "resolved"

C38_Witness ==
    /\ data.optional
    /\ Len(dom0) = 0
    /\ data.hooks = HookNames
    /\ fillState = "resolved"
    /\ count = 0

\* ------------------------------------------------- the caller's fields list
\* C37: fillInForm leaves the caller's list as it was: at every moment of the
\* call, and so after it succeeded or failed, the list has the same length
\* and holds the same specifications in the same order.
C37_CallerListUnchanged ==
    /\ Len(valuesArray) = Len(values)
    /\ \A i \in DOMAIN valuesArray : valuesArray[i] = i

C37_Witness ==
    /\ formPromise \in {"resolved", "rejected"}
    /\ Len(values) = 2
    /\ queues = <<>>
    /\ \A k \in Fields : fpc[k] # "idle"

\* ---------------------------------------------------------- getFormValues
\* The names the queue has handed to the worker so far, in that order.
Looked == [p \in DOMAIN rlog |-> rlog[p].name]

\* C39: getFormValues never rejects and resolves once every name was tried,
\* in the order of the list, whatever lookup or read failed; a name that was
\* given with a leading '#' is looked up by id without it; each key of the
\* result is a requested name without its leading '#'; and the caller's list
\* stays as it was.
C39_ReadAlwaysResolves ==
    /\ [] /\ rpromise # "rejected"
          /\ Len(Looked) <= Len(rfields)
          /\ Looked = SubSeq(rfields, 1, Len(Looked))
          /\ rpromise = "resolved" => Looked = rfields
          /\ (rpc \in {"done", "settled"}) => Looked = rfields
          /\ ~(ENABLED ReadNext) => rpromise = "resolved"
          /\ \A p \in DOMAIN rlog :
                Head(rlog[p].name) = "#" =>
                    rlog[p].by = "id" /\ <<"#">> \o rlog[p].field = rlog[p].name
          /\ \A k \in DOMAIN rvalues :
                /\ k = <<>> \/ Head(k) # "#"
                /\ \E i \in DOMAIN rfields :
                      rfields[i] = k \/ rfields[i] = <<"#">> \o k
    /\ [][rfields' = rfields]_vars

C39_Witness ==
    /\ rpromise = "resolved"
    /\ rfields = << <<"b">>, <<"#", "a">> >>
    /\ DOMAIN rvalues = { <<"a">> }

====
